---- MODULE Spec2Model ----
(***************************************************************************)
(* Model of the benchmark aggregators dev_run/analyze.py and               *)
(* dev_run/analyze_ext.py: stage-file parsing, per-request statistics,     *)
(* aggregation per (experiment, requested rate), the summary across QPS,   *)
(* EPP log parsing, and the two main pipelines.                            *)
(*                                                                         *)
(* Floating point values are exact rationals [k, n, d] with k = "num",     *)
(* or the two special values NaN (also standing for Python None once a     *)
(* value sits in a DataFrame column) and Inf.                              *)
(***************************************************************************)
EXTENDS Integers, Sequences, FiniteSets, TLC

VARIABLES
    pc,           \* position of the running program
    args,         \* parsed command line
    stage_files,  \* stage_*_lifecycle_metrics.json files under base_dir, sorted by path
    epp_logs,     \* epp.log files under base_dir, sorted by path
    pr_file,      \* content of one per_request_lifecycle_metrics.json
    pr_stats,     \* what _read_per_request_stats returned for pr_file
    stage_df,     \* DataFrame of stage records
    agg,          \* DataFrame of aggregated rows
    epp_df,       \* DataFrame of pod metric samples
    out_files,    \* names of the files written to out_dir
    plotted,      \* <<chart file, experiment>> for every line drawn in a chart
    earlier,      \* what each completed earlier run on the directory found and made
    report        \* content of benchmark_report.md once written

vars == <<pc, args, stage_files, epp_logs, pr_file, pr_stats, stage_df, agg,
          epp_df, out_files, plotted, earlier, report>>

----------------------------------------------------------------------------
(* Bounds of the model                                                     *)

MaxFiles == 2      \* stage files under base_dir in the pipeline specifications
MaxStageRows == 2  \* stage files in the aggregation specifications
MaxRecords == 3    \* records in a per-request file
MaxLines == 2      \* lines of an epp.log
MaxPods == 2       \* entries of a "pods" array
MaxRuns == 2       \* runs of the tool on one directory

----------------------------------------------------------------------------
(* Floating point values                                                   *)

NaN == [k |-> "nan", n |-> 0, d |-> 1]
Inf == [k |-> "inf", n |-> 1, d |-> 0]
NegInf == [k |-> "inf", n |-> -1, d |-> 0]

RECURSIVE GCD(_, _)
GCD(a, b) == IF b = 0 THEN a ELSE GCD(b, a % b)

\* the rational n/d, d > 0, in lowest terms; the infinities are Inf and NegInf
Num(n, d) ==
    LET g == GCD(IF n < 0 THEN -n ELSE n, d)
    IN  [k |-> "num", n |-> n \div g, d |-> d \div g]

FromInt(i) == Num(i, 1)

IsNum(x) == x.k = "num"
NotNa(x) == x.k # "nan"      \* pd.notna: an infinity is not missing

FAdd(a, b) ==
    IF a.k = "nan" \/ b.k = "nan" THEN NaN
    ELSE IF a.k = "inf" /\ b.k = "inf" THEN (IF a.n = b.n THEN a ELSE NaN)
    ELSE IF a.k = "inf" THEN a
    ELSE IF b.k = "inf" THEN b
    ELSE Num(a.n * b.d + b.n * a.d, a.d * b.d)

FMul(a, b) ==
    IF a.k = "nan" \/ b.k = "nan" THEN NaN
    ELSE IF a.k = "inf" \/ b.k = "inf"
         THEN (IF (a.k = "num" /\ a.n = 0) \/ (b.k = "num" /\ b.n = 0) THEN NaN
               ELSE IF a.k = "inf" /\ b.k = "inf" /\ a.n # b.n THEN NegInf
               ELSE IF a.k = "inf" /\ b.k = "inf" THEN Inf
               ELSE IF a.k = "inf" THEN a ELSE b)
    ELSE Num(a.n * b.n, a.d * b.d)

\* numpy/pandas float division: x/0 is inf for x > 0 and NaN for x = 0, no error
FDiv(a, b) ==
    IF a.k = "nan" \/ b.k = "nan" THEN NaN
    ELSE IF a.k = "inf" THEN (IF b.k = "inf" THEN NaN ELSE a)
    ELSE IF b.k = "inf" THEN Num(0, 1)
    ELSE IF b.n = 0 THEN (IF a.n = 0 THEN NaN ELSE IF a.n < 0 THEN NegInf ELSE Inf)
    ELSE Num(a.n * b.d, a.d * b.n)

\* a - b
FSub(a, b) == FAdd(a, [b EXCEPT !.n = -b.n])

\* a < b on non-missing values
FLt(a, b) ==
    IF a.k = "inf" THEN a.n < 0 /\ b # NegInf
    ELSE IF b.k = "inf" THEN b.n > 0
    ELSE a.n * b.d < b.n * a.d

\* Series.replace([inf, -inf], nan)
ReplaceInf(x) == IF x.k = "inf" THEN NaN ELSE x

\* Series.fillna(other)
FillNa(x, other) == IF x.k = "nan" THEN other ELSE x

RECURSIVE SumSkipNa(_)
\* pandas sum: missing values are skipped, an all-missing column sums to 0
SumSkipNa(s) ==
    IF s = <<>> THEN Num(0, 1)
    ELSE IF Head(s).k = "nan" THEN SumSkipNa(Tail(s))
    ELSE FAdd(Head(s), SumSkipNa(Tail(s)))

RECURSIVE CountNotNa(_)
CountNotNa(s) ==
    IF s = <<>> THEN 0
    ELSE (IF Head(s).k = "nan" THEN 0 ELSE 1) + CountNotNa(Tail(s))

\* pandas sum(min_count=1): missing when no value is present
SumMinCount1(s) == IF CountNotNa(s) = 0 THEN NaN ELSE SumSkipNa(s)

\* pandas mean: missing values are skipped, missing when no value is present
MeanSkipNa(s) ==
    IF CountNotNa(s) = 0 THEN NaN ELSE FDiv(SumSkipNa(s), FromInt(CountNotNa(s)))

RECURSIVE SumInt(_)
SumInt(s) == IF s = <<>> THEN 0 ELSE Head(s) + SumInt(Tail(s))

----------------------------------------------------------------------------
(* _read_per_request_stats                                                 *)
(*                                                                         *)
(* A per-request file is a sequence of lines (NDJSON, or a JSON array      *)
(* written one element per line).  A line is                               *)
(*   kind = "bad_line"    text that json.loads rejects,                    *)
(*   kind = "not_object"  a JSON value that is not an object,              *)
(*   kind = "object"      a request record.                                *)
(* A number field is [ok, v]: ok = FALSE is a value int()/float() rejects. *)
(* start_time is [k, v] with k = "none" (absent/null), "num" or "bad".     *)

EmptyStats ==
    [input_tokens_total |-> 0, output_tokens_total |-> 0,
     ttft_samples |-> <<>>, itl_samples |-> <<>>, raised |-> FALSE]

\* the requests _iter_requests yields: a line that is not JSON is passed over
IterRequests(text) == SelectSeq(text, LAMBDA line : line.kind # "bad_line")

\* tok_times[::2]
EveryOther(t) == [i \in 1..((Len(t) + 1) \div 2) |-> t[2 * i - 1]]

TokenStarts(tok_times) ==
    IF Len(tok_times) >= 2 /\ tok_times[1] = tok_times[2]
    THEN EveryOther(tok_times)
    ELSE tok_times

\* TTFT: first token start - start_time; float() of a bad value raises
TtftStep(st, start_time, token_starts) ==
    IF start_time.k = "none" THEN st
    ELSE IF ~token_starts[1].ok \/ start_time.k = "bad" THEN [st EXCEPT !.raised = TRUE]
    ELSE IF token_starts[1].v - start_time.v >= 0
         THEN [st EXCEPT !.ttft_samples = Append(@, token_starts[1].v - start_time.v)]
    ELSE st

RECURSIVE ItlLoop(_, _, _)
\* ITL: diffs between successive token starts, from index i on; the samples
\* appended before a float() raises stay in the list
ItlLoop(st, token_starts, i) ==
    IF i > Len(token_starts) THEN st
    ELSE IF ~token_starts[i].ok \/ ~token_starts[i - 1].ok THEN [st EXCEPT !.raised = TRUE]
    ELSE LET d == token_starts[i].v - token_starts[i - 1].v
             st1 == IF d >= 0 THEN [st EXCEPT !.itl_samples = Append(@, d)] ELSE st
         IN  ItlLoop(st1, token_starts, i + 1)

\* one turn of the loop over the requests; raised = TRUE when the turn raises
ProcessRequest(st, obj) ==
    IF obj.kind # "object" \/ obj.error THEN st
    ELSE IF ~obj.input_tokens.ok THEN [st EXCEPT !.raised = TRUE]
    ELSE LET s1 == [st EXCEPT !.input_tokens_total = @ + obj.input_tokens.v] IN
    IF ~obj.output_tokens.ok THEN [s1 EXCEPT !.raised = TRUE]
    ELSE LET s2 == [s1 EXCEPT !.output_tokens_total = @ + obj.output_tokens.v] IN
    IF obj.tok_times = <<>> THEN s2
    ELSE LET token_starts == TokenStarts(obj.tok_times)
             s3 == TtftStep(s2, obj.start_time, token_starts)
         IN  IF s3.raised THEN s3 ELSE ItlLoop(s3, token_starts, 2)

RECURSIVE RequestLoop(_, _)
\* the loop over the requests inside try/except Exception: pass -- the first
\* turn that raises ends the loop, the requests after it are never read
RequestLoop(st, reqs) ==
    IF reqs = <<>> \/ st.raised THEN st
    ELSE RequestLoop(ProcessRequest(st, Head(reqs)), Tail(reqs))

RECURSIVE InsertInt(_, _)
InsertInt(x, s) ==
    IF s = <<>> THEN <<x>>
    ELSE IF x < Head(s) THEN <<x>> \o s
    ELSE <<Head(s)>> \o InsertInt(x, Tail(s))

RECURSIVE SortInts(_)
SortInts(s) == IF s = <<>> THEN <<>> ELSE InsertInt(Head(s), SortInts(Tail(s)))

\* np.percentile(samples, q), linear interpolation; samples not empty
Percentile(samples, q) ==
    LET s == SortInts(samples)
        h == (Len(s) - 1) * q
        lo == h \div 100
        rem == h % 100
    IN  IF rem = 0 THEN FromInt(s[lo + 1])
        ELSE Num(s[lo + 1] * 100 + rem * (s[lo + 2] - s[lo + 1]), 100)

\* file = [exists, lines]
read_per_request_stats(file) ==
    LET st == IF file.exists THEN RequestLoop(EmptyStats, IterRequests(file.lines))
              ELSE EmptyStats
    IN  [input_tokens_total |-> st.input_tokens_total,
         output_tokens_total |-> st.output_tokens_total,
         ttft_samples |-> st.ttft_samples,
         itl_samples |-> st.itl_samples,
         ttft_p50_s_computed |->
             IF st.ttft_samples # <<>> THEN Percentile(st.ttft_samples, 50) ELSE NaN,
         ttft_p90_s_computed |->
             IF st.ttft_samples # <<>> THEN Percentile(st.ttft_samples, 90) ELSE NaN,
         itl_p50_s_computed |->
             IF st.itl_samples # <<>> THEN Percentile(st.itl_samples, 50) ELSE NaN,
         itl_p90_s_computed |->
             IF st.itl_samples # <<>> THEN Percentile(st.itl_samples, 90) ELSE NaN]

----------------------------------------------------------------------------
(* Stage files, parse_stage_file, build_stage_df                           *)
(*                                                                         *)
(* A stage file is [kind, experiment, stage_index, requested_rate,         *)
(* send_duration, succ_count, fail_count, requests_per_sec,                *)
(* output_tokens_per_sec, ttft_mean, ..., sections, per_request], where    *)
(* sections gives for each section of the document whether it is an        *)
(* "object", "missing" or "null", and kind is                              *)
(*   "object"        a JSON document whose top level is an object,         *)
(*   "invalid_json"  text that json.load rejects,                          *)
(*   "not_object"    JSON whose top level is not an object,                *)
(* experiment is the first path segment under base_dir and per_request is  *)
(* the per_request_lifecycle_metrics.json beside it.  A missing or null    *)
(* number is NaN.                                                          *)

\* the experiment labels, in string order
Experiments == <<"a", "b">>

ExpRank(e) == CHOOSE i \in 1..Len(Experiments) : Experiments[i] = e

\* json.load raises on text that is not JSON; data.get raises AttributeError
\* on a list, string, number or null; nothing around them catches
StageFileRaises(f) == f.kind # "object"

\* success_rate = (successes / total) if total else None
StageSuccessRateZero(successes, total) ==
    IF total # 0 THEN Num(successes, total) ELSE Num(0, 1)

StageSuccessRate(successes, total) ==
    IF total # 0 THEN Num(successes, total) ELSE NaN

FallbackOnlyMissing(from_file, computed) ==
    IF from_file.k = "nan" /\ computed.k # "nan" THEN computed ELSE from_file

\* a percentile of the stage file, or the one computed from the per-request
\* records when the file's is missing or 0 and a computed one exists
Fallback(from_file, computed) ==
    IF (from_file.k = "nan" \/ from_file = FromInt(0)) /\ computed.k # "nan"
    THEN computed ELSE from_file

\* d.get(name, {}) or {} of a section that is "object", "missing" or "null",
\* inside a parent that was read the same way: TRUE when the JSON object of
\* the section is at hand, FALSE when {} stands in for it
Section(parent, state) == parent /\ state = "object"

\* section.get(key): None when the section is {} or the key is absent
Get(section, value) == IF section THEN value ELSE NaN

CountIgnoresSection(section, value) == value

\* int(section.get("count", 0) or 0)
Count(section, value) == IF section THEN value ELSE 0

parse_stage_file(f) ==
    LET load == Section(TRUE, f.sections.load_summary)
        succ == Section(TRUE, f.sections.successes)
        fails == Section(TRUE, f.sections.failures)
        lat == Section(succ, f.sections.latency)
        ttf == Section(lat, f.sections.time_to_first_token)
        itl == Section(lat, f.sections.inter_token_latency)
        thr == Section(succ, f.sections.throughput)
        successes == Count(succ, f.succ_count)
        failures == Count(fails, f.fail_count)
        total == successes + failures
        pr == read_per_request_stats(f.per_request)
    IN  [experiment |-> f.experiment,
         stage_index |-> f.stage_index,
         requested_qps |-> Get(load, f.requested_rate),
         send_duration_s |-> Get(load, f.send_duration),
         achieved_rps_json |-> Get(thr, f.requests_per_sec),
         input_toks_per_sec_json |-> Get(thr, f.input_tokens_per_sec),
         output_toks_per_sec_json |-> Get(thr, f.output_tokens_per_sec),
         total_toks_per_sec_json |-> Get(thr, f.total_tokens_per_sec),
         ttft_mean_s |-> Get(ttf, f.ttft_mean),
         ttft_p50_s |-> Fallback(Get(ttf, f.ttft_p50), pr.ttft_p50_s_computed),
         ttft_p90_s |-> Fallback(Get(ttf, f.ttft_p90), pr.ttft_p90_s_computed),
         itl_mean_s |-> Get(itl, f.itl_mean),
         itl_p50_s |-> Fallback(Get(itl, f.itl_p50), pr.itl_p50_s_computed),
         itl_p90_s |-> Fallback(Get(itl, f.itl_p90), pr.itl_p90_s_computed),
         successes |-> successes,
         failures |-> failures,
         success_rate |-> StageSuccessRate(successes, total),
         input_tokens_total |-> pr.input_tokens_total,
         output_tokens_total |-> pr.output_tokens_total]

\* ascending order of one column, missing values last; "lt", "gt" or "eq"
CmpNaLast(x, y) ==
    IF x.k = "nan" /\ y.k = "nan" THEN "eq"
    ELSE IF x.k = "nan" THEN "gt"
    ELSE IF y.k = "nan" THEN "lt"
    ELSE IF FLt(x, y) THEN "lt"
    ELSE IF FLt(y, x) THEN "gt"
    ELSE "eq"

\* sort_values(by=["experiment", "requested_qps", "stage_index"])
StageBefore(x, y) ==
    IF ExpRank(x.experiment) # ExpRank(y.experiment)
    THEN ExpRank(x.experiment) < ExpRank(y.experiment)
    ELSE IF CmpNaLast(x.requested_qps, y.requested_qps) # "eq"
    THEN CmpNaLast(x.requested_qps, y.requested_qps) = "lt"
    ELSE x.stage_index < y.stage_index

RECURSIVE InsertStage(_, _)
InsertStage(x, s) ==
    IF s = <<>> THEN <<x>>
    ELSE IF StageBefore(x, Head(s)) THEN <<x>> \o s
    ELSE <<Head(s)>> \o InsertStage(x, Tail(s))

RECURSIVE SortStages(_)
SortStages(s) ==
    IF s = <<>> THEN <<>>
    ELSE InsertStage(s[Len(s)], SortStages(SubSeq(s, 1, Len(s) - 1)))

\* pd.DataFrame([]) has no columns at all
EmptyFrame == [columns |-> FALSE, rows |-> <<>>]

IsEmpty(df) == df.rows = <<>>

BuildRaises(files) == \E i \in 1..Len(files) : StageFileRaises(files[i])

\* defined when no file raises
build_stage_df(files) ==
    IF files = <<>> THEN EmptyFrame
    ELSE [columns |-> TRUE,
          rows |-> SortStages([i \in 1..Len(files) |-> parse_stage_file(files[i])])]

----------------------------------------------------------------------------
(* aggregate_per_qps                                                       *)

\* the group keys of groupby(["experiment", "requested_qps"]): dropna=True is
\* the default, a row whose requested_qps is missing belongs to no group
GroupKeys(rows) ==
    {<<rows[i].experiment, rows[i].requested_qps>> :
        i \in {j \in 1..Len(rows) : NotNa(rows[j].requested_qps)}}

KeyBefore(x, y) ==
    IF ExpRank(x[1]) # ExpRank(y[1]) THEN ExpRank(x[1]) < ExpRank(y[1])
    ELSE FLt(x[2], y[2])

RECURSIVE SortedKeys(_)
\* groupby sorts the group keys
SortedKeys(ks) ==
    IF ks = {} THEN <<>>
    ELSE LET m == CHOOSE x \in ks : \A y \in ks \ {x} : KeyBefore(x, y)
         IN  <<m>> \o SortedKeys(ks \ {m})

GroupRowsByRateOnly(rows, key) ==
    SelectSeq(rows, LAMBDA r : r.requested_qps = key[2])

GroupRows(rows, key) ==
    SelectSeq(rows, LAMBDA r : r.experiment = key[1] /\ r.requested_qps = key[2])

Column(rows, col) == [i \in 1..Len(rows) |-> rows[i][col]]

ServedModes == {"total", "successes", "json"}

\* --baseline not given
NoBaseline == ""

CompletedRpsSwapped(mode, completed_rps_total, completed_rps_successes, achieved_rps_json) ==
    IF mode = "successes" THEN completed_rps_total
    ELSE IF mode = "json" THEN achieved_rps_json
    ELSE completed_rps_successes

CompletedRps(mode, completed_rps_total, completed_rps_successes, achieved_rps_json) ==
    IF mode = "successes" THEN completed_rps_successes
    ELSE IF mode = "json" THEN achieved_rps_json
    ELSE completed_rps_total

\* the stage-reported mean without its infinities, else the derived value
PlotValueKeepsInf(json_mean, derived) ==
    IF NotNa(json_mean) THEN json_mean ELSE derived

\* np.where(pd.notna(s), s, derived) with s = json_mean.replace(inf, nan)
PlotValue(json_mean, derived) ==
    IF NotNa(ReplaceInf(json_mean)) THEN ReplaceInf(json_mean) ELSE derived

NormTimeNoGuard(duration_s, output_tokens_total) ==
    FDiv(duration_s, FromInt(output_tokens_total))

\* np.where(output_tokens_total > 0, duration_s / output_tokens_total, nan)
NormTime(duration_s, output_tokens_total) ==
    IF output_tokens_total > 0 THEN FDiv(duration_s, FromInt(output_tokens_total))
    ELSE NaN

AggRow(rows, key, served_mode) ==
    LET g == GroupRows(rows, key)
        successes == SumInt(Column(g, "successes"))
        failures == SumInt(Column(g, "failures"))
        duration_s == SumSkipNa(Column(g, "send_duration_s"))
        achieved_rps_json == MeanSkipNa(Column(g, "achieved_rps_json"))
        input_tokens_total == SumInt(Column(g, "input_tokens_total"))
        output_tokens_total == SumInt(Column(g, "output_tokens_total"))
        total_completed == successes + failures
        completed_rps_total == FDiv(FromInt(total_completed), duration_s)
        completed_rps_successes == FDiv(FromInt(successes), duration_s)
        input_toks_per_sec_json == MeanSkipNa(Column(g, "input_toks_per_sec_json"))
        output_toks_per_sec_json == MeanSkipNa(Column(g, "output_toks_per_sec_json"))
        total_toks_per_sec_json == MeanSkipNa(Column(g, "total_toks_per_sec_json"))
        output_toks_per_sec == FDiv(FromInt(output_tokens_total), duration_s)
        input_toks_per_sec == FDiv(FromInt(input_tokens_total), duration_s)
        total_toks_per_sec == FAdd(output_toks_per_sec, input_toks_per_sec)
    IN  [experiment |-> key[1],
         requested_qps |-> key[2],
         successes |-> successes,
         failures |-> failures,
         duration_s |-> duration_s,
         achieved_rps_json |-> achieved_rps_json,
         ttft_mean_s |-> MeanSkipNa(Column(g, "ttft_mean_s")),
         itl_mean_s |-> MeanSkipNa(Column(g, "itl_mean_s")),
         ttft_p50_s |-> MeanSkipNa(Column(g, "ttft_p50_s")),
         ttft_p90_s |-> MeanSkipNa(Column(g, "ttft_p90_s")),
         itl_p50_s |-> MeanSkipNa(Column(g, "itl_p50_s")),
         itl_p90_s |-> MeanSkipNa(Column(g, "itl_p90_s")),
         input_tokens_total |-> input_tokens_total,
         output_tokens_total |-> output_tokens_total,
         input_toks_per_sec_json |-> input_toks_per_sec_json,
         output_toks_per_sec_json |-> output_toks_per_sec_json,
         total_toks_per_sec_json |-> total_toks_per_sec_json,
         total_completed |-> total_completed,
         success_rate |-> FDiv(FromInt(successes), FromInt(total_completed)),
         completed_rps_total |-> completed_rps_total,
         completed_rps_successes |-> completed_rps_successes,
         completed_rps |-> CompletedRps(served_mode, completed_rps_total,
                                        completed_rps_successes, achieved_rps_json),
         output_toks_per_sec |-> output_toks_per_sec,
         input_toks_per_sec |-> input_toks_per_sec,
         total_toks_per_sec |-> total_toks_per_sec,
         input_toks_per_sec_plot |-> PlotValue(input_toks_per_sec_json, input_toks_per_sec),
         output_toks_per_sec_plot |->
             PlotValue(output_toks_per_sec_json, output_toks_per_sec),
         total_toks_per_sec_plot |-> PlotValue(total_toks_per_sec_json, total_toks_per_sec),
         norm_time_per_output_token_s |-> NormTime(duration_s, output_tokens_total)]

aggregate_per_qps(df, served_mode) ==
    IF IsEmpty(df) THEN df
    ELSE LET keys == SortedKeys(GroupKeys(df.rows))
         IN  [columns |-> TRUE,
              rows |-> [i \in 1..Len(keys) |-> AggRow(df.rows, keys[i], served_mode)]]

----------------------------------------------------------------------------
(* _build_summary_across_qps (analyze.py)                                  *)

ExperimentsOf(rows) == {rows[i].experiment : i \in 1..Len(rows)}

RECURSIVE SortedExperiments(_)
SortedExperiments(es) ==
    IF es = {} THEN <<>>
    ELSE LET m == CHOOSE x \in es : \A y \in es \ {x} : ExpRank(x) < ExpRank(y)
         IN  <<m>> \o SortedExperiments(es \ {m})

RowsOf(rows, exp) == SelectSeq(rows, LAMBDA r : r.experiment = exp)

\* (agg[col] * agg["successes"]) for the rows of one experiment
Weighted(g, col) == [i \in 1..Len(g) |-> FMul(g[i][col], FromInt(g[i].successes))]

\* sum of value * successes over the rows whose value is present, divided by
\* the sum of successes over all the rows of the experiment
WeightedOverall(g, col) ==
    ReplaceInf(FDiv(SumMinCount1(Weighted(g, col)),
                    FromInt(SumInt(Column(g, "successes")))))

CompletedRpsOverall(served_mode, g) ==
    LET total_duration == SumMinCount1(Column(g, "duration_s"))
        succ_sum == SumInt(Column(g, "successes"))
        fail_sum == SumInt(Column(g, "failures"))
    IN  IF served_mode = "json"
        THEN FDiv(SumMinCount1([i \in 1..Len(g) |->
                      FMul(g[i].achieved_rps_json, g[i].duration_s)]), total_duration)
        ELSE IF served_mode = "successes" THEN FDiv(FromInt(succ_sum), total_duration)
        ELSE FDiv(FromInt(succ_sum + fail_sum), total_duration)

SummaryRow(rows, exp, served_mode) ==
    LET g == RowsOf(rows, exp)
        total_duration == SumMinCount1(Column(g, "duration_s"))
        succ_sum == SumInt(Column(g, "successes"))
        fail_sum == SumInt(Column(g, "failures"))
        out_tok_sum == SumInt(Column(g, "output_tokens_total"))
    IN  [experiment |-> exp,
         qps_points |-> Cardinality({g[i].requested_qps : i \in 1..Len(g)}),
         successes |-> succ_sum,
         failures |-> fail_sum,
         duration_s |-> total_duration,
         completed_rps_overall |-> CompletedRpsOverall(served_mode, g),
         output_tokens_total |-> out_tok_sum,
         output_toks_per_sec_overall |->
             FillNa(MeanSkipNa(Column(g, "output_toks_per_sec_json")),
                    FDiv(FromInt(out_tok_sum), total_duration)),
         ttft_mean_s_overall |-> WeightedOverall(g, "ttft_mean_s"),
         ttft_p90_s_overall |-> WeightedOverall(g, "ttft_p90_s"),
         success_rate_overall |-> FDiv(FromInt(succ_sum), FromInt(succ_sum + fail_sum))]

CmpDescNaFirst(x, y) == CmpNaLast(y, x)

\* descending order of one column, missing values last
CmpDescNaLast(x, y) ==
    IF x.k = "nan" \/ y.k = "nan" THEN CmpNaLast(x, y) ELSE CmpNaLast(y, x)

\* sort_values(by=[output_toks_per_sec_overall, success_rate_overall,
\* ttft_mean_s_overall], ascending=[False, False, True])
SummaryBefore(x, y) ==
    IF CmpDescNaLast(x.output_toks_per_sec_overall, y.output_toks_per_sec_overall) # "eq"
    THEN CmpDescNaLast(x.output_toks_per_sec_overall, y.output_toks_per_sec_overall) = "lt"
    ELSE IF CmpDescNaLast(x.success_rate_overall, y.success_rate_overall) # "eq"
    THEN CmpDescNaLast(x.success_rate_overall, y.success_rate_overall) = "lt"
    ELSE CmpNaLast(x.ttft_mean_s_overall, y.ttft_mean_s_overall) = "lt"

RECURSIVE InsertSummary(_, _)
InsertSummary(x, s) ==
    IF s = <<>> THEN <<x>>
    ELSE IF SummaryBefore(x, Head(s)) THEN <<x>> \o s
    ELSE <<Head(s)>> \o InsertSummary(x, Tail(s))

RECURSIVE SortSummary(_)
SortSummary(s) ==
    IF s = <<>> THEN <<>>
    ELSE InsertSummary(s[Len(s)], SortSummary(SubSeq(s, 1, Len(s) - 1)))

TtftDeltaNoGuard(ttft, base_ttft) ==
    FMul(FDiv(FSub(ttft, base_ttft), base_ttft), FromInt(100))

\* ((ttft - base_ttft) / base_ttft) * 100.0, pd.NA when base_ttft is missing
\* or 0
TtftDelta(ttft, base_ttft) ==
    IF NotNa(base_ttft) /\ base_ttft # FromInt(0)
    THEN FMul(FDiv(FSub(ttft, base_ttft), base_ttft), FromInt(100))
    ELSE NaN

\* the summary with the column ttft_delta_vs_baseline_pct_overall
WithBaselineDelta(summary, baseline) ==
    LET base == SelectSeq(summary, LAMBDA r : r.experiment = baseline)
    IN  [i \in 1..Len(summary) |->
            summary[i] @@
            [ttft_delta_vs_baseline_pct_overall |->
                IF baseline # NoBaseline /\ base # <<>>
                THEN TtftDelta(summary[i].ttft_mean_s_overall, base[1].ttft_mean_s_overall)
                ELSE NaN]]

\* defined for a frame that is not empty
build_summary_across_qps(df, served_mode, baseline) ==
    LET exps == SortedExperiments(ExperimentsOf(df.rows))
    IN  SortSummary(WithBaselineDelta(
            [i \in 1..Len(exps) |-> SummaryRow(df.rows, exps[i], served_mode)], baseline))

----------------------------------------------------------------------------
(* write_markdown_report_per_qps (analyze.py)                              *)

CsvFile == "analysis_metrics.csv"
ReportFile == "benchmark_report.md"

\* the charts dict of main, in insertion order
Charts == <<"throughput_vs_latency.png", "latency_vs_qps.png", "throughput_vs_qps.png">>

\* sort_values(by=["output_toks_per_sec", "success_rate", "ttft_mean_s"],
\* ascending=[False, False, True])
PerQpsBefore(x, y) ==
    IF CmpDescNaLast(x.output_toks_per_sec, y.output_toks_per_sec) # "eq"
    THEN CmpDescNaLast(x.output_toks_per_sec, y.output_toks_per_sec) = "lt"
    ELSE IF CmpDescNaLast(x.success_rate, y.success_rate) # "eq"
    THEN CmpDescNaLast(x.success_rate, y.success_rate) = "lt"
    ELSE CmpNaLast(x.ttft_mean_s, y.ttft_mean_s) = "lt"

RECURSIVE InsertPerQps(_, _)
InsertPerQps(x, s) ==
    IF s = <<>> THEN <<x>>
    ELSE IF PerQpsBefore(x, Head(s)) THEN <<x>> \o s
    ELSE <<Head(s)>> \o InsertPerQps(x, Tail(s))

RECURSIVE SortPerQps(_)
SortPerQps(s) ==
    IF s = <<>> THEN <<>>
    ELSE InsertPerQps(s[Len(s)], SortPerQps(SubSeq(s, 1, Len(s) - 1)))

RECURSIVE SortedRates(_)
SortedRates(qs) ==
    IF qs = {} THEN <<>>
    ELSE LET m == CHOOSE x \in qs : \A y \in qs \ {x} : FLt(x, y)
         IN  <<m>> \o SortedRates(qs \ {m})

\* f"{x:.1f}": x rounded to tenths, half to even; "" (NaN here) when missing
FormatTenths(x) ==
    IF x.k # "num" THEN x
    ELSE LET q == (x.n * 10) \div x.d
             r == (x.n * 10) % x.d
         IN  Num(IF 2 * r > x.d \/ (2 * r = x.d /\ q % 2 = 1) THEN q + 1 ELSE q, 10)

\* the cells of a table row that are read from other columns than the sort
\* keys: Output toks/s shows output_toks_per_sec_plot
TableRow(r) == r @@ [toks |-> FormatTenths(r.output_toks_per_sec_plot)]

\* for qps, qps_df in agg.groupby("requested_qps"): one sorted table per rate
PerQpsTables(rows) ==
    LET qs == SortedRates({rows[i].requested_qps : i \in 1..Len(rows)})
    IN  [i \in 1..Len(qs) |->
            LET sorted == SortPerQps(SelectSeq(rows, LAMBDA r : r.requested_qps = qs[i]))
            IN  [qps |-> qs[i],
                 rows |-> [k \in 1..Len(sorted) |-> TableRow(sorted[k])]]]

NoReport == [sections |-> <<>>, images |-> {}, summary |-> <<>>, per_qps |-> <<>>]

\* existing: the files of out_dir when the report is written
write_markdown_report_per_qps(df, existing, served_mode, baseline) ==
    IF IsEmpty(df)
    THEN [sections |-> <<"title", "no_data", "configuration">>,
          images |-> {}, summary |-> <<>>, per_qps |-> <<>>]
    ELSE [sections |-> <<"title", "charts", "how_to_read", "field_descriptions",
                         "summary", "per_qps", "configuration">>,
          images |-> {Charts[i] : i \in 1..Len(Charts)} \cap existing,
          summary |-> build_summary_across_qps(df, served_mode, baseline),
          per_qps |-> PerQpsTables(df.rows)]

----------------------------------------------------------------------------
(* main (analyze.py)                                                       *)

\* 1) stage_df = build_stage_df(base_dir); an exception ends the program
BuildStageDf ==
    /\ pc = "build_stage_df"
    /\ IF BuildRaises(stage_files)
       THEN pc' = "raised" /\ UNCHANGED stage_df
       ELSE pc' = "aggregate" /\ stage_df' = build_stage_df(stage_files)
    /\ UNCHANGED <<args, earlier, plotted, stage_files, epp_logs, pr_file, pr_stats,
                   agg, epp_df, out_files, report>>

\* 2) agg = aggregate_per_qps(stage_df, served_mode, cap_served)
AggregatePerQps ==
    /\ pc = "aggregate"
    /\ agg' = aggregate_per_qps(stage_df, args.served_mode)
    /\ pc' = "save_csv"
    /\ UNCHANGED <<args, earlier, plotted, stage_files, epp_logs, pr_file, pr_stats,
                   stage_df, epp_df, out_files, report>>

\* 3) agg.to_csv(csv_path)
SaveCsv ==
    /\ pc = "save_csv"
    /\ out_files' = out_files \cup {CsvFile}
    /\ pc' = "plot"
    /\ UNCHANGED <<args, earlier, plotted, stage_files, epp_logs, pr_file, pr_stats,
                   stage_df, agg, epp_df, report>>

PlotFilesNoGuard(df, names) == names

PlotFilesNotSaved(df, names) == {}

\* plot_*: returns without a file when agg is empty, else saves the figure
PlotFiles(df, names) == IF IsEmpty(df) THEN {} ELSE names

\* the mean success rate of the rows of an experiment is below the threshold
Excluded(rows, exp, threshold) ==
    LET m == MeanSkipNa(Column(RowsOf(rows, exp), "success_rate"))
    IN  m.k # "nan" /\ FLt(m, threshold)

\* the threshold written in the plot functions of analyze.py
AnalyzeThreshold == Num(2, 10)

\* the columns one of which a row needs to be drawn in a chart; the rows
\* of agg all have a requested_qps
PlotColumns(chart) ==
    IF chart = "throughput_vs_latency.png" THEN {"output_toks_per_sec_plot"}
    ELSE IF chart = "throughput_vs_qps.png"
    THEN {"input_toks_per_sec_plot", "output_toks_per_sec_plot", "total_toks_per_sec_plot"}
    ELSE IF chart = "ttft_p90_vs_qps.png" THEN {"ttft_p90_s"}
    ELSE {"requested_qps"}

\* the experiments a plot function draws a line for
PlottedExperiments(df, chart, threshold) ==
    IF IsEmpty(df) THEN {}
    ELSE {e \in ExperimentsOf(df.rows) :
             /\ ~Excluded(df.rows, e, threshold)
             /\ \E i \in 1..Len(df.rows) :
                   /\ df.rows[i].experiment = e
                   /\ \E col \in PlotColumns(chart) : NotNa(df.rows[i][col])}

PlotLines(df, charts, threshold) ==
    {l \in charts \X ExperimentsOf(df.rows) :
        l[2] \in PlottedExperiments(df, l[1], threshold)}

\* 4) the three plot calls
PlotCharts ==
    /\ pc = "plot"
    /\ out_files' = out_files \cup PlotFiles(agg, {Charts[i] : i \in 1..Len(Charts)})
    /\ plotted' = PlotLines(agg, {Charts[i] : i \in 1..Len(Charts)}, AnalyzeThreshold)
    /\ pc' = "report"
    /\ UNCHANGED <<args, earlier, stage_files, epp_logs, pr_file, pr_stats, stage_df,
                   agg, epp_df, report>>

\* 5), 6) discover the configuration files and write the markdown report
WriteReport ==
    /\ pc = "report"
    /\ report' = write_markdown_report_per_qps(agg, out_files, args.served_mode,
                                                args.baseline)
    /\ out_files' = out_files \cup {ReportFile}
    /\ pc' = "done"
    /\ UNCHANGED <<args, earlier, plotted, stage_files, epp_logs, pr_file, pr_stats,
                   stage_df, agg, epp_df>>

Next == BuildStageDf \/ AggregatePerQps \/ SaveCsv \/ PlotCharts \/ WriteReport

----------------------------------------------------------------------------
(* Inputs                                                                  *)

NoPerRequest == [exists |-> FALSE, lines |-> <<>>]

\* the sections of a stage document that parse_stage_file reads
SectionNames ==
    {"load_summary", "successes", "failures", "latency", "time_to_first_token",
     "inter_token_latency", "throughput"}

\* every section is a JSON object
AllSections == [n \in SectionNames |-> "object"]

StageFile(kind, exp, idx, rate, dur, s, f, rps, otps, ttft, pr) ==
    [kind |-> kind, experiment |-> exp, stage_index |-> idx, requested_rate |-> rate,
     send_duration |-> dur, succ_count |-> s, fail_count |-> f,
     requests_per_sec |-> rps, output_tokens_per_sec |-> otps, ttft_mean |-> ttft,
     ttft_p90 |-> NaN, ttft_p50 |-> NaN, itl_mean |-> NaN, itl_p50 |-> NaN,
     itl_p90 |-> NaN, input_tokens_per_sec |-> NaN, total_tokens_per_sec |-> NaN,
     sections |-> AllSections, per_request |-> pr]

\* sequences of at most n files drawn from dom; the i-th file is stage_<i-1>
FileLists(dom, n) ==
    UNION {{fl \in [1..k -> dom] : \A i \in 1..k : fl[i].stage_index = i - 1} : k \in 0..n}

Idle ==
    /\ epp_logs = <<>>
    /\ pr_file = NoPerRequest
    /\ pr_stats = read_per_request_stats(NoPerRequest)
    /\ stage_df = EmptyFrame
    /\ agg = EmptyFrame
    /\ epp_df = EmptyFrame
    /\ out_files = {}
    /\ plotted = {}
    /\ earlier = <<>>
    /\ report = NoReport

\* stage files of the pipeline specification: well-formed and malformed ones
MainFiles ==
    {StageFile(kind, exp, idx, NaN, NaN, 0, 0, NaN, NaN, NaN, NoPerRequest) :
        kind \in {"invalid_json", "not_object"}, exp \in {"a"}, idx \in 0..MaxFiles}
    \cup
    {StageFile("object", exp, idx, rate, FromInt(2), c[1], c[2], FromInt(1), NaN,
               FromInt(1), NoPerRequest) :
        exp \in {"a", "b"}, idx \in 0..MaxFiles, rate \in {NaN, FromInt(1)},
        c \in {<<0, 0>>, <<2, 1>>}}

Init ==
    /\ pc = "build_stage_df"
    /\ args \in [script : {"analyze"}, served_mode : ServedModes, skip_stage0 : {FALSE},
                 target_addresses : {{}}, baseline : {NoBaseline}]
    /\ stage_files \in FileLists(MainFiles, MaxFiles)
    /\ Idle

Spec == Init /\ [][Next]_vars

\* stage files of the aggregation specification: well-formed, with the
\* requested rate, the counts, the send duration and requests_per_sec varied
AggMetrics == {<<0, 0, 0, NaN>>, <<1, 1, 2, FromInt(1)>>, <<2, 0, 1, FromInt(3)>>}

AggFiles ==
    {StageFile("object", exp, idx, rate, FromInt(m[3]), m[1], m[2], m[4], NaN,
               FromInt(1), NoPerRequest) :
        exp \in {"a", "b"}, idx \in 0..MaxStageRows,
        rate \in {NaN, FromInt(1), FromInt(2)}, m \in AggMetrics}

InitAgg ==
    /\ pc = "build_stage_df"
    /\ args \in [script : {"analyze"}, served_mode : ServedModes, skip_stage0 : {FALSE},
                 target_addresses : {{}}, baseline : {NoBaseline}]
    /\ stage_files \in FileLists(AggFiles, MaxStageRows)
    /\ Idle

SpecAgg == InitAgg /\ [][Next]_vars

\* stage files of the summary specification: the success count and the
\* mean TTFT varied, over two experiments and two rates
SummaryMetrics == {<<0, FromInt(3)>>, <<1, NaN>>, <<1, FromInt(1)>>, <<2, FromInt(3)>>}

SummaryFiles ==
    {StageFile("object", exp, idx, rate, FromInt(2), m[1], 1, NaN, NaN, m[2],
               NoPerRequest) :
        exp \in {"a", "b"}, idx \in 0..MaxStageRows,
        rate \in {FromInt(1), FromInt(2)}, m \in SummaryMetrics}

InitSummary ==
    /\ pc = "build_stage_df"
    /\ args \in [script : {"analyze"}, served_mode : {"total"}, skip_stage0 : {FALSE},
                 target_addresses : {{}}, baseline : {NoBaseline}]
    /\ stage_files \in FileLists(SummaryFiles, MaxStageRows)
    /\ Idle

SpecSummary == InitSummary /\ [][Next]_vars

----------------------------------------------------------------------------
(* _read_per_request_stats applied to one per-request file                 *)

ReadPerRequestStats ==
    /\ pc = "read_per_request"
    /\ pr_stats' = read_per_request_stats(pr_file)
    /\ pc' = "stats_done"
    /\ UNCHANGED <<args, earlier, plotted, stage_files, epp_logs, pr_file, stage_df,
                   agg, epp_df, out_files, report>>

NextPerRequest == ReadPerRequestStats

OkNum(v) == [ok |-> TRUE, v |-> v]
BadNum == [ok |-> FALSE, v |-> 0]
NoTime == [k |-> "none", v |-> 0]
Time(v) == [k |-> "num", v |-> v]
BadTime == [k |-> "bad", v |-> 0]

Request(error, input_tokens, output_tokens, start_time, tok_times) ==
    [kind |-> "object", error |-> error, input_tokens |-> input_tokens,
     output_tokens |-> output_tokens, start_time |-> start_time,
     tok_times |-> tok_times]

NonRequest(kind) ==
    [kind |-> kind, error |-> FALSE, input_tokens |-> BadNum, output_tokens |-> BadNum,
     start_time |-> NoTime, tok_times |-> <<>>]

\* the lines a per-request file is made of
RequestLines ==
    {NonRequest("bad_line"), NonRequest("not_object")}
    \cup {Request(FALSE, OkNum(i), OkNum(3), t[1], t[2]) :
            i \in {1, 2},
            t \in {<<NoTime, <<>> >>, <<Time(1), <<OkNum(3), OkNum(5)>> >>}}
    \cup {Request(FALSE, OkNum(1), OkNum(3), Time(2),
                  <<OkNum(4), OkNum(4), OkNum(7), OkNum(7)>>)}
    \cup {Request(TRUE, OkNum(2), OkNum(3), Time(1), <<OkNum(3), OkNum(5)>>)}
    \cup {Request(FALSE, BadNum, OkNum(3), NoTime, <<>>),
          Request(FALSE, OkNum(1), BadNum, NoTime, <<>>),
          Request(FALSE, OkNum(1), OkNum(3), BadTime, <<OkNum(3), OkNum(5)>>),
          Request(FALSE, OkNum(1), OkNum(3), Time(1), <<OkNum(3), OkNum(5), BadNum>>)}

\* no per-request file, or one of at most n lines
PerRequestFiles(n) ==
    {NoPerRequest} \cup
    UNION {{[exists |-> TRUE, lines |-> l] : l \in [1..k -> RequestLines]} : k \in 0..n}

InitPerRequest ==
    /\ pc = "read_per_request"
    /\ args = [script |-> "analyze", served_mode |-> "total", skip_stage0 |-> FALSE,
               target_addresses |-> {}, baseline |-> NoBaseline]
    /\ stage_files = <<>>
    /\ epp_logs = <<>>
    /\ pr_file \in PerRequestFiles(MaxRecords)
    /\ pr_stats = read_per_request_stats(NoPerRequest)
    /\ stage_df = EmptyFrame
    /\ agg = EmptyFrame
    /\ epp_df = EmptyFrame
    /\ out_files = {}
    /\ plotted = {}
    /\ earlier = <<>>
    /\ report = NoReport

SpecPerRequest == InitPerRequest /\ [][NextPerRequest]_vars

----------------------------------------------------------------------------
(* EPP logs: parse_epp_log_line, parse_epp_log_file, build_epp_metrics_df  *)
(*                                                                         *)
(* An epp.log is [experiment, lines].  A line is [has_timestamp,           *)
(* timestamp, pods_kind, pods]: has_timestamp says whether the line starts *)
(* with a timestamp, pods_kind is "list" when the text after "pods": is a  *)
(* JSON array and "none" otherwise.  A pods entry is [is_dict, address,    *)
(* waiting_queue_size].                                                    *)

\* the pod addresses, in string order ("unknown" is the default address)
Addresses == <<"10.0.0.1", "10.0.0.2", "unknown">>

AddrRank(a) == CHOOSE i \in 1..Len(Addresses) : Addresses[i] = a

\* lines 121-150 without the first entry of the array
PodMetricsDropFirst(line) ==
    LET dicts == SelectSeq(SubSeq(line.pods, 2, Len(line.pods)),
                           LAMBDA pod : pod.is_dict)
    IN  [i \in 1..Len(dicts) |->
            [timestamp |-> line.timestamp,
             pod_address |-> dicts[i].address,
             waiting_queue_size |-> dicts[i].waiting_queue_size]]

\* one sample per entry of the pods array that is an object
PodMetrics(line) ==
    LET dicts == SelectSeq(line.pods, LAMBDA pod : pod.is_dict)
    IN  [i \in 1..Len(dicts) |->
            [timestamp |-> line.timestamp,
             pod_address |-> dicts[i].address,
             waiting_queue_size |-> dicts[i].waiting_queue_size]]

\* the samples of one line; <<>> stands for None
parse_epp_log_line(line) ==
    IF ~line.has_timestamp \/ line.pods_kind # "list" THEN <<>> ELSE PodMetrics(line)

RECURSIVE Flatten(_)
Flatten(ss) == IF ss = <<>> THEN <<>> ELSE Head(ss) \o Flatten(Tail(ss))

\* sort_values(["experiment", "pod_address", "timestamp"])
SampleBefore(x, y) ==
    IF ExpRank(x.experiment) # ExpRank(y.experiment)
    THEN ExpRank(x.experiment) < ExpRank(y.experiment)
    ELSE IF AddrRank(x.pod_address) # AddrRank(y.pod_address)
    THEN AddrRank(x.pod_address) < AddrRank(y.pod_address)
    ELSE x.timestamp < y.timestamp

RECURSIVE InsertSample(_, _)
InsertSample(x, s) ==
    IF s = <<>> THEN <<x>>
    ELSE IF SampleBefore(x, Head(s)) THEN <<x>> \o s
    ELSE <<Head(s)>> \o InsertSample(x, Tail(s))

RECURSIVE SortSamples(_)
SortSamples(s) ==
    IF s = <<>> THEN <<>>
    ELSE InsertSample(s[Len(s)], SortSamples(SubSeq(s, 1, Len(s) - 1)))

PassesFilterAll(address, target_addresses) == TRUE

\* target_addresses = {} stands for None: no filter
PassesFilter(address, target_addresses) ==
    target_addresses = {} \/ address \in target_addresses

\* the rows of one epp.log
parse_epp_log_file(log, target_addresses) ==
    LET all == Flatten([i \in 1..Len(log.lines) |-> parse_epp_log_line(log.lines[i])])
        kept == SelectSeq(all, LAMBDA m : PassesFilter(m.pod_address, target_addresses))
    IN  SortSamples([i \in 1..Len(kept) |->
            [experiment |-> log.experiment,
             timestamp |-> kept[i].timestamp,
             pod_address |-> kept[i].pod_address,
             waiting_queue_size |-> kept[i].waiting_queue_size]])

build_epp_metrics_df(logs, target_addresses) ==
    LET rows == Flatten([i \in 1..Len(logs) |->
                    parse_epp_log_file(logs[i], target_addresses)])
    IN  IF rows = <<>> THEN EmptyFrame
        ELSE [columns |-> TRUE, rows |-> SortSamples(rows)]

\* build_epp_metrics_df applied to the logs under base_dir
BuildEppMetricsDf ==
    /\ pc = "build_epp_metrics_df"
    /\ epp_df' = build_epp_metrics_df(epp_logs, args.target_addresses)
    /\ pc' = "epp_done"
    /\ UNCHANGED <<args, earlier, plotted, stage_files, epp_logs, pr_file, pr_stats,
                   stage_df, agg, out_files, report>>

NextEpp == BuildEppMetricsDf

Pod(address, wq) == [is_dict |-> TRUE, address |-> address, waiting_queue_size |-> wq]
NonDictPod == [is_dict |-> FALSE, address |-> "unknown", waiting_queue_size |-> 0]

LogPods == {Pod("10.0.0.1", 1), Pod("10.0.0.2", 0)}

PodArrays ==
    UNION {[1..k -> LogPods] : k \in 0..MaxPods}
    \cup {<<NonDictPod>>, <<NonDictPod, Pod("10.0.0.1", 1)>>}

LogLines ==
    {[has_timestamp |-> TRUE, timestamp |-> ts, pods_kind |-> "list", pods |-> pods] :
        ts \in {1, 2}, pods \in PodArrays}
    \cup {[has_timestamp |-> FALSE, timestamp |-> 0, pods_kind |-> "list",
           pods |-> <<Pod("10.0.0.1", 1)>>],
          [has_timestamp |-> TRUE, timestamp |-> 1, pods_kind |-> "none", pods |-> <<>>]}

EppLog(exp, lines) == [experiment |-> exp, lines |-> lines]

\* a second log, of another experiment
OtherLog ==
    EppLog("b", <<[has_timestamp |-> TRUE, timestamp |-> 1, pods_kind |-> "list",
                   pods |-> <<Pod("10.0.0.1", 1)>>]>>)

\* no log, or a log of at most n lines, alone or with the second log
EppLogLists(n) ==
    {<<>>} \cup
    UNION {{<<EppLog("a", l)>>, <<EppLog("a", l), OtherLog>>} :
              l \in UNION {[1..k -> LogLines] : k \in 0..n}}

InitEpp ==
    /\ pc = "build_epp_metrics_df"
    /\ args \in [script : {"analyze_ext"}, served_mode : {"total"},
                 skip_stage0 : {FALSE}, target_addresses : {{}, {"10.0.0.1"}},
                 baseline : {NoBaseline}]
    /\ stage_files = <<>>
    /\ epp_logs \in EppLogLists(MaxLines)
    /\ pr_file = NoPerRequest
    /\ pr_stats = read_per_request_stats(NoPerRequest)
    /\ stage_df = EmptyFrame
    /\ agg = EmptyFrame
    /\ epp_df = EmptyFrame
    /\ out_files = {}
    /\ plotted = {}
    /\ earlier = <<>>
    /\ report = NoReport

SpecEpp == InitEpp /\ [][NextEpp]_vars

----------------------------------------------------------------------------
(* analyze_ext.py: EPP aggregation, merge, report and main                 *)
(* parse_stage_file, build_stage_df, aggregate_per_qps and the weighted    *)
(* means of _build_summary_across_qps are the same code as in analyze.py.  *)

MaxInt(S) == CHOOSE x \in S : \A y \in S : y <= x

\* one row per experiment of the EPP table; pd.DataFrame() when it is empty
aggregate_epp_metrics_by_experiment(df) ==
    IF IsEmpty(df) THEN EmptyFrame
    ELSE LET exps == SortedExperiments(ExperimentsOf(df.rows))
         IN  [columns |-> TRUE,
              rows |-> [i \in 1..Len(exps) |->
                  LET g == RowsOf(df.rows, exps[i])
                  IN  [experiment |-> exps[i],
                       waiting_queue_size_mean |->
                           FDiv(FromInt(SumInt(Column(g, "waiting_queue_size"))),
                                FromInt(Len(g))),
                       waiting_queue_size_max |->
                           MaxInt({g[j].waiting_queue_size : j \in 1..Len(g)}),
                       num_pods |-> Cardinality({g[j].pod_address : j \in 1..Len(g)}),
                       num_data_points |-> Len(g)]]]

\* agg_df.merge(epp_agg_df, on='experiment', how='left') raises KeyError
\* when agg_df has no 'experiment' column
MergeRaises(agg_df, epp_agg_df) == ~IsEmpty(epp_agg_df) /\ ~agg_df.columns

\* the columns a row of agg_df gets from the EPP row of its experiment
EppColumns(exp, epp_agg_df) ==
    LET m == SelectSeq(epp_agg_df.rows, LAMBDA r : r.experiment = exp)
    IN  IF m = <<>>
        THEN [waiting_queue_size_mean |-> NaN, waiting_queue_size_max |-> NaN,
              num_pods |-> NaN, num_data_points |-> NaN]
        ELSE [waiting_queue_size_mean |-> m[1].waiting_queue_size_mean,
              waiting_queue_size_max |-> FromInt(m[1].waiting_queue_size_max),
              num_pods |-> FromInt(m[1].num_pods),
              num_data_points |-> FromInt(m[1].num_data_points)]

\* defined when MergeRaises is false and epp_agg_df is not empty
merge_with_epp_metrics(agg_df, epp_agg_df) ==
    [columns |-> TRUE,
     rows |-> [i \in 1..Len(agg_df.rows) |->
                  agg_df.rows[i] @@ EppColumns(agg_df.rows[i].experiment, epp_agg_df)]]

EppCsvFile == "epp_log_metrics.csv"
EppSummaryCsvFile == "epp_log_metrics_summary.csv"

\* the charts dict of main before the EPP charts, in insertion order
ExtCharts ==
    <<"latency_vs_qps.png", "throughput_vs_qps.png", "ttft_p90_vs_qps.png",
      "throughput_vs_latency.png">>

\* the entries main adds to the charts dict when epp_df is not empty
EppCharts ==
    <<"waiting_queue_vs_time.png", "kv_cache_usage_vs_time.png",
      "epp_metrics_comparison.png">>

\* epp_pod_{experiment}_{pod_name_safe}.png
PodChartFile(exp, addr) ==
    CASE exp = "a" /\ addr = "10.0.0.1" -> "epp_pod_a_10_0_0_1.png"
      [] exp = "a" /\ addr = "10.0.0.2" -> "epp_pod_a_10_0_0_2.png"
      [] exp = "a" /\ addr = "unknown" -> "epp_pod_a_unknown.png"
      [] exp = "b" /\ addr = "10.0.0.1" -> "epp_pod_b_10_0_0_1.png"
      [] exp = "b" /\ addr = "10.0.0.2" -> "epp_pod_b_10_0_0_2.png"
      [] OTHER -> "epp_pod_b_unknown.png"

\* one chart per experiment and pod address of the EPP table
plot_per_pod_epp_metrics(df) ==
    IF IsEmpty(df) THEN {}
    ELSE {PodChartFile(df.rows[i].experiment, df.rows[i].pod_address) :
             i \in 1..Len(df.rows)}

\* sort_values(by=["ttft_p90_s_overall", "ttft_mean_s_overall"])
ExtSummaryBefore(x, y) ==
    IF CmpNaLast(x.ttft_p90_s_overall, y.ttft_p90_s_overall) # "eq"
    THEN CmpNaLast(x.ttft_p90_s_overall, y.ttft_p90_s_overall) = "lt"
    ELSE CmpNaLast(x.ttft_mean_s_overall, y.ttft_mean_s_overall) = "lt"

RECURSIVE ExtInsertSummary(_, _)
ExtInsertSummary(x, s) ==
    IF s = <<>> THEN <<x>>
    ELSE IF ExtSummaryBefore(x, Head(s)) THEN <<x>> \o s
    ELSE <<Head(s)>> \o ExtInsertSummary(x, Tail(s))

RECURSIVE ExtSortSummary(_)
ExtSortSummary(s) ==
    IF s = <<>> THEN <<>>
    ELSE ExtInsertSummary(s[Len(s)], ExtSortSummary(SubSeq(s, 1, Len(s) - 1)))

\* defined for a frame that is not empty
ext_build_summary_across_qps(df, served_mode, baseline) ==
    LET exps == SortedExperiments(ExperimentsOf(df.rows))
    IN  ExtSortSummary(WithBaselineDelta(
            [i \in 1..Len(exps) |-> SummaryRow(df.rows, exps[i], served_mode)], baseline))

\* sort_values(by=["ttft_p90_s", "ttft_mean_s", "success_rate"],
\* ascending=[True, True, False])
ExtPerQpsBefore(x, y) ==
    IF CmpNaLast(x.ttft_p90_s, y.ttft_p90_s) # "eq"
    THEN CmpNaLast(x.ttft_p90_s, y.ttft_p90_s) = "lt"
    ELSE IF CmpNaLast(x.ttft_mean_s, y.ttft_mean_s) # "eq"
    THEN CmpNaLast(x.ttft_mean_s, y.ttft_mean_s) = "lt"
    ELSE CmpDescNaLast(x.success_rate, y.success_rate) = "lt"

RECURSIVE ExtInsertPerQps(_, _)
ExtInsertPerQps(x, s) ==
    IF s = <<>> THEN <<x>>
    ELSE IF ExtPerQpsBefore(x, Head(s)) THEN <<x>> \o s
    ELSE <<Head(s)>> \o ExtInsertPerQps(x, Tail(s))

RECURSIVE ExtSortPerQps(_)
ExtSortPerQps(s) ==
    IF s = <<>> THEN <<>>
    ELSE ExtInsertPerQps(s[Len(s)], ExtSortPerQps(SubSeq(s, 1, Len(s) - 1)))

\* for qps, qps_df in agg.groupby("requested_qps"), outside the else branch
ExtPerQpsTables(rows) ==
    LET present == SelectSeq(rows, LAMBDA r : r.requested_qps.k # "nan")
        qs == SortedRates({present[i].requested_qps : i \in 1..Len(present)})
    IN  [i \in 1..Len(qs) |->
            [qps |-> qs[i],
             rows |-> ExtSortPerQps(SelectSeq(present, LAMBDA r : r.requested_qps = qs[i]))]]

\* agg.groupby("requested_qps") raises KeyError on a frame without columns
ExtReportRaises(df) == ~df.columns

\* the report of analyze_ext.py; defined when ExtReportRaises is false
ext_write_markdown_report_per_qps(df, epp_agg, existing, charts, per_pod_charts, mode, baseline) ==
    [sections |->
         <<"title", "profile", "scheduler_configs">>
         \o (IF IsEmpty(df) THEN <<"no_data">>
             ELSE <<"charts", "how_to_read", "summary">>
                  \o (IF IsEmpty(epp_agg) THEN <<>> ELSE <<"epp_summary">>))
         \o <<"per_qps">>
         \o (IF per_pod_charts = {} THEN <<>> ELSE <<"per_pod">>),
     images |-> IF IsEmpty(df) THEN {} ELSE charts \cap existing,
     summary |-> IF IsEmpty(df) THEN <<>> ELSE ext_build_summary_across_qps(df, mode,
                                                                          baseline),
     per_qps |-> ExtPerQpsTables(df.rows),
     per_pod |-> per_pod_charts]

\* stage_df[stage_df["stage_index"] != 0] raises KeyError on a frame
\* without columns
SkipStage0Raises(df) == ~df.columns

SkipStage0KeepsAll(df) == df

SkipStage0(df) ==
    [columns |-> TRUE, rows |-> SelectSeq(df.rows, LAMBDA r : r.stage_index # 0)]

\* 1) build_stage_df and the --skip-stage0 filter
ExtBuildStageDf ==
    /\ pc = "ext_build_stage_df"
    /\ IF BuildRaises(stage_files)
       THEN pc' = "raised" /\ UNCHANGED stage_df
       ELSE LET df == build_stage_df(stage_files) IN
            IF args.skip_stage0 /\ SkipStage0Raises(df)
            THEN pc' = "raised" /\ UNCHANGED stage_df
            ELSE /\ pc' = "ext_aggregate"
                 /\ stage_df' = IF args.skip_stage0 THEN SkipStage0(df) ELSE df
    /\ UNCHANGED <<args, earlier, plotted, stage_files, epp_logs, pr_file, pr_stats,
                   agg, epp_df, out_files, report>>

\* 2) aggregate_per_qps
ExtAggregatePerQps ==
    /\ pc = "ext_aggregate"
    /\ agg' = aggregate_per_qps(stage_df, args.served_mode)
    /\ pc' = "ext_epp"
    /\ UNCHANGED <<args, earlier, plotted, stage_files, epp_logs, pr_file, pr_stats,
                   stage_df, epp_df, out_files, report>>

\* 3) the EPP table, its aggregation and the merge into agg
ExtEppMetrics ==
    /\ pc = "ext_epp"
    /\ LET df == build_epp_metrics_df(epp_logs, args.target_addresses)
           epp_agg == aggregate_epp_metrics_by_experiment(df)
       IN  /\ epp_df' = df
           /\ IF IsEmpty(epp_agg) THEN pc' = "ext_save_csv" /\ UNCHANGED agg
              ELSE IF MergeRaises(agg, epp_agg) THEN pc' = "raised" /\ UNCHANGED agg
              ELSE pc' = "ext_save_csv" /\ agg' = merge_with_epp_metrics(agg, epp_agg)
    /\ UNCHANGED <<args, earlier, plotted, stage_files, epp_logs, pr_file, pr_stats,
                   stage_df, out_files, report>>

\* 4) the CSV files
ExtSaveCsv ==
    /\ pc = "ext_save_csv"
    /\ out_files' = out_files \cup {CsvFile}
                    \cup (IF IsEmpty(epp_df) THEN {} ELSE {EppCsvFile, EppSummaryCsvFile})
    /\ pc' = "ext_plot"
    /\ UNCHANGED <<args, earlier, plotted, stage_files, epp_logs, pr_file, pr_stats,
                   stage_df, agg, epp_df, report>>

\* the threshold written in the plot functions of analyze_ext.py
ExtThreshold == Num(9, 10)

\* 5), 6) the core charts, the EPP charts and the per-pod charts;
\* plot_ttft_p90_vs_qps has no threshold
ExtPlotCharts ==
    /\ pc = "ext_plot"
    /\ out_files' = out_files
                    \cup PlotFiles(agg, {ExtCharts[i] : i \in 1..Len(ExtCharts)})
                    \cup PlotFiles(epp_df, {EppCharts[i] : i \in 1..Len(EppCharts)})
                    \cup plot_per_pod_epp_metrics(epp_df)
    /\ plotted' =
           PlotLines(agg, {"latency_vs_qps.png", "throughput_vs_qps.png",
                           "throughput_vs_latency.png"}, ExtThreshold)
           \cup PlotLines(agg, {"ttft_p90_vs_qps.png"}, NegInf)
    /\ pc' = "ext_report"
    /\ UNCHANGED <<args, earlier, stage_files, epp_logs, pr_file, pr_stats, stage_df,
                   agg, epp_df, report>>

\* 7), 8) discover the configuration files and write the markdown report;
\* the file is written at the end of write_markdown_report_per_qps
ExtWriteReport ==
    /\ pc = "ext_report"
    /\ IF ExtReportRaises(agg)
       THEN pc' = "raised" /\ UNCHANGED <<report, out_files>>
       ELSE /\ report' = ext_write_markdown_report_per_qps(
                   agg, aggregate_epp_metrics_by_experiment(epp_df), out_files,
                   {ExtCharts[i] : i \in 1..Len(ExtCharts)}
                   \cup (IF IsEmpty(epp_df) THEN {}
                         ELSE {EppCharts[i] : i \in 1..Len(EppCharts)}),
                   plot_per_pod_epp_metrics(epp_df), args.served_mode, args.baseline)
            /\ out_files' = out_files \cup {ReportFile}
            /\ pc' = "done"
    /\ UNCHANGED <<args, earlier, plotted, stage_files, epp_logs, pr_file, pr_stats,
                   stage_df, agg, epp_df>>

NextExt ==
    \/ ExtBuildStageDf \/ ExtAggregatePerQps \/ ExtEppMetrics
    \/ ExtSaveCsv \/ ExtPlotCharts \/ ExtWriteReport

\* stage files of the analyze_ext.py specification
ExtFiles ==
    {StageFile("invalid_json", "a", idx, NaN, NaN, 0, 0, NaN, NaN, NaN, NoPerRequest) :
        idx \in 0..MaxFiles}
    \cup
    {[StageFile("object", exp, idx, FromInt(1), FromInt(2), c[1], c[2], FromInt(1), NaN,
                FromInt(1), NoPerRequest) EXCEPT !.ttft_p90 = p90] :
        exp \in {"a", "b"}, idx \in 0..MaxFiles, c \in {<<0, 0>>, <<2, 1>>},
        p90 \in {NaN, FromInt(2)}}

\* the epp.log files of the analyze_ext.py specification
ExtEppLogs ==
    {<<>>,
     <<EppLog("a", <<>>)>>,
     <<EppLog("a", <<[has_timestamp |-> TRUE, timestamp |-> 1, pods_kind |-> "list",
                      pods |-> <<Pod("10.0.0.1", 1), Pod("10.0.0.2", 0)>>]>>)>>,
     <<EppLog("a", <<[has_timestamp |-> TRUE, timestamp |-> 1, pods_kind |-> "list",
                      pods |-> <<Pod("10.0.0.1", 1)>>]>>), OtherLog>>}

InitExt ==
    /\ pc = "ext_build_stage_df"
    /\ args \in [script : {"analyze_ext"}, served_mode : {"total"},
                 skip_stage0 : BOOLEAN, target_addresses : {{}}, baseline : {NoBaseline}]
    /\ stage_files \in FileLists(ExtFiles, MaxFiles)
    /\ epp_logs \in ExtEppLogs
    /\ pr_file = NoPerRequest
    /\ pr_stats = read_per_request_stats(NoPerRequest)
    /\ stage_df = EmptyFrame
    /\ agg = EmptyFrame
    /\ epp_df = EmptyFrame
    /\ out_files = {}
    /\ plotted = {}
    /\ earlier = <<>>
    /\ report = NoReport

SpecExt == InitExt /\ [][NextExt]_vars

----------------------------------------------------------------------------
(* parse_stage_file applied to one stage file with sections missing or     *)
(* null, percentiles missing or 0, and a per-request file or none          *)

\* a per-request file without samples, with a TTFT sample only, and with
\* TTFT and ITL samples
SampleFiles ==
    {NoPerRequest,
     [exists |-> TRUE, lines |-> <<Request(FALSE, OkNum(1), OkNum(3), NoTime, <<>>)>>],
     [exists |-> TRUE,
      lines |-> <<Request(FALSE, OkNum(1), OkNum(3), Time(1), <<OkNum(3)>>)>>],
     [exists |-> TRUE,
      lines |-> <<Request(FALSE, OkNum(1), OkNum(3), Time(1), <<OkNum(3), OkNum(6)>>)>>]}

\* a stage file with every value present
FullFile(pr) ==
    [StageFile("object", "a", 0, FromInt(1), FromInt(2), 2, 1, FromInt(1), FromInt(3),
               FromInt(1), pr)
        EXCEPT !.itl_mean = FromInt(1), !.input_tokens_per_sec = FromInt(1),
               !.total_tokens_per_sec = FromInt(4)]

WithPercentiles(f, t50, t90, i50, i90) ==
    [f EXCEPT !.ttft_p50 = t50, !.ttft_p90 = t90, !.itl_p50 = i50, !.itl_p90 = i90]

\* every combination of sections that are objects, missing or null
SectionFiles ==
    {[WithPercentiles(FullFile(pr), v, v, v, v) EXCEPT !.sections = sec] :
        sec \in [SectionNames -> {"object", "missing", "null"}],
        v \in {NaN, FromInt(4)},
        pr \in {NoPerRequest, [exists |-> TRUE,
                  lines |-> <<Request(FALSE, OkNum(1), OkNum(3), Time(1),
                                      <<OkNum(3), OkNum(6)>>)>>]}}

\* every combination of percentiles that are missing, 0 or another value
PercentileFiles ==
    {WithPercentiles(FullFile(pr), v[1], v[2], v[3], v[4]) :
        v \in [1..4 -> {NaN, FromInt(0), FromInt(4)}], pr \in SampleFiles}

InitParse ==
    /\ pc = "build_stage_df"
    /\ args = [script |-> "analyze", served_mode |-> "total", skip_stage0 |-> FALSE,
               target_addresses |-> {}, baseline |-> NoBaseline]
    /\ stage_files \in {<<f>> : f \in SectionFiles \cup PercentileFiles}
    /\ Idle

SpecParse == InitParse /\ [][Next]_vars

----------------------------------------------------------------------------
(* aggregate_per_qps applied to stage files that report tokens per second, *)
(* infinities included, with and without per-request token counts         *)

\* the input, output and total tokens per second a stage file reports
ToksPerSec ==
    {<<NaN, NaN, NaN>>, <<FromInt(1), FromInt(3), FromInt(4)>>,
     <<Inf, Inf, NegInf>>, <<FromInt(1), NegInf, Inf>>, <<NaN, FromInt(5), NaN>>}

TokensFile(input_tokens, output_tokens) ==
    [exists |-> TRUE,
     lines |-> <<Request(FALSE, OkNum(input_tokens), OkNum(output_tokens), NoTime, <<>>)>>]

ToksFiles ==
    {[StageFile("object", "a", idx, rate, dur, 2, 1, FromInt(1), t[2], FromInt(1), pr)
        EXCEPT !.input_tokens_per_sec = t[1], !.total_tokens_per_sec = t[3]] :
        idx \in 0..MaxStageRows, rate \in {FromInt(1), FromInt(2)},
        dur \in {NaN, FromInt(2)}, t \in ToksPerSec,
        pr \in {NoPerRequest, TokensFile(1, 3)}}

InitToks ==
    /\ pc = "build_stage_df"
    /\ args = [script |-> "analyze", served_mode |-> "total", skip_stage0 |-> FALSE,
               target_addresses |-> {}, baseline |-> NoBaseline]
    /\ stage_files \in FileLists(ToksFiles, MaxStageRows)
    /\ Idle

SpecToks == InitToks /\ [][Next]_vars

----------------------------------------------------------------------------
(* The report tables of two experiments at one rate, with the reported     *)
(* output tokens per second and the per-request token counts varied        *)

TableFiles ==
    {StageFile("object", exp, idx, FromInt(1), FromInt(2), c[1], c[2], FromInt(1), otps,
               FromInt(1), pr) :
        exp \in {"a", "b"}, idx \in 0..MaxStageRows, c \in {<<2, 1>>, <<2, 0>>},
        otps \in {NaN, FromInt(3), FromInt(5)},
        pr \in {NoPerRequest, TokensFile(1, 3)}}

InitTables ==
    /\ pc = "build_stage_df"
    /\ args = [script |-> "analyze", served_mode |-> "total", skip_stage0 |-> FALSE,
               target_addresses |-> {}, baseline |-> NoBaseline]
    /\ stage_files \in FileLists(TableFiles, MaxStageRows)
    /\ Idle

SpecTables == InitTables /\ [][Next]_vars

----------------------------------------------------------------------------
(* The summary with a baseline experiment                                  *)

\* the success count and the mean TTFT of a stage file
BaselineMetrics ==
    {<<1, NaN>>, <<1, FromInt(0)>>, <<1, FromInt(1)>>, <<2, FromInt(3)>>, <<0, FromInt(1)>>}

BaselineFiles ==
    {StageFile("object", exp, idx, rate, FromInt(2), m[1], 1, NaN, NaN, m[2],
               NoPerRequest) :
        exp \in {"a", "b"}, idx \in 0..MaxStageRows,
        rate \in {FromInt(1), FromInt(2)}, m \in BaselineMetrics}

InitBaseline ==
    /\ pc = "build_stage_df"
    /\ args \in [script : {"analyze"}, served_mode : {"total"}, skip_stage0 : {FALSE},
                 target_addresses : {{}}, baseline : {NoBaseline, "a", "b", "zz"}]
    /\ stage_files \in FileLists(BaselineFiles, MaxStageRows)
    /\ Idle

SpecBaseline == InitBaseline /\ [][Next]_vars

----------------------------------------------------------------------------
(* The charts of both scripts                                              *)

\* the success and failure counts of a stage file: rates 1, 9/10, 2/3, 0
\* and none
ChartCounts == {<<1, 0>>, <<9, 1>>, <<2, 1>>, <<0, 1>>, <<0, 0>>}

\* the reported output rate and the duration of a stage file; with neither
\* the output rate of the row is missing
ChartRates == {<<FromInt(3), FromInt(2)>>, <<NaN, NaN>>}

ChartFiles ==
    {StageFile("object", exp, idx, rate, r[2], c[1], c[2], NaN, r[1], FromInt(1),
               NoPerRequest) :
        exp \in {"a", "b"}, idx \in 0..MaxStageRows,
        rate \in {FromInt(1), FromInt(2)}, c \in ChartCounts, r \in ChartRates}

InitCharts ==
    /\ args \in [script : {"analyze", "analyze_ext"}, served_mode : {"total"},
                 skip_stage0 : {FALSE}, target_addresses : {{}}, baseline : {NoBaseline}]
    /\ pc = IF args.script = "analyze" THEN "build_stage_df" ELSE "ext_build_stage_df"
    /\ stage_files \in FileLists(ChartFiles, MaxStageRows)
    /\ Idle

\* a step of main of either script
NextMain == Next \/ NextExt

SpecCharts == InitCharts /\ [][NextMain]_vars

\* a run of either script
InitMain == Init \/ InitExt

SpecMain == InitMain /\ [][NextMain]_vars

----------------------------------------------------------------------------
(* The order of the summary rows of both scripts                           *)

\* the reported output rate, the duration, the success and failure counts,
\* the mean TTFT and the TTFT p90 of a stage file: each sort key of the
\* summary larger, smaller, equal and missing
OrderMetrics ==
    {<<FromInt(5), FromInt(2), 1, 0, FromInt(1), FromInt(2)>>,
     <<FromInt(3), FromInt(2), 1, 0, FromInt(1), FromInt(2)>>,
     <<NaN, NaN, 1, 0, FromInt(1), FromInt(2)>>,
     <<FromInt(3), FromInt(2), 1, 1, FromInt(1), FromInt(2)>>,
     <<FromInt(3), FromInt(2), 0, 0, NaN, NaN>>,
     <<FromInt(3), FromInt(2), 1, 0, FromInt(2), FromInt(2)>>,
     <<FromInt(3), FromInt(2), 1, 0, NaN, FromInt(3)>>,
     <<FromInt(3), FromInt(2), 1, 0, FromInt(1), NaN>>}

OrderFiles ==
    {[StageFile("object", exp, idx, FromInt(1), m[2], m[3], m[4], NaN, m[1], m[5],
                NoPerRequest) EXCEPT !.ttft_p90 = m[6]] :
        exp \in {"a", "b"}, idx \in 0..MaxStageRows, m \in OrderMetrics}

InitOrder ==
    /\ args \in [script : {"analyze", "analyze_ext"}, served_mode : {"total"},
                 skip_stage0 : {FALSE}, target_addresses : {{}}, baseline : {NoBaseline}]
    /\ pc = IF args.script = "analyze" THEN "build_stage_df" ELSE "ext_build_stage_df"
    /\ stage_files \in FileLists(OrderFiles, MaxStageRows)
    /\ Idle

SpecOrder == InitOrder /\ [][NextMain]_vars

----------------------------------------------------------------------------
(* Runs of a script one after another on the same directories              *)

\* the extension of the name of a file a run writes
OutputSuffix(file) ==
    IF file \in {CsvFile, EppCsvFile, EppSummaryCsvFile} THEN ".csv"
    ELSE IF file = ReportFile THEN ".md"
    ELSE ".png"

\* os.path.join(out_dir, name): a run writes its files into out_dir itself;
\* dirs are the directories between the directory searched and the file
OutputPath(file) == [dirs |-> <<>>, name |-> file, suffix |-> OutputSuffix(file)]

\* the files of out_dir a search under base_dir meets: out_dir is base_dir
\* unless --out-dir names another directory
WrittenUnderBaseDir == IF args.out_dir = "base_dir" THEN out_files ELSE {}

MatchesStageFileAnySuffix(path) == TRUE

\* **/stage_*_lifecycle_metrics.json at any depth: the name ends in .json
MatchesStageFile(path) == path.suffix = ".json"

\* **/epp.log at any depth
MatchesEppLog(path) == path.name = "epp.log"

\* <base_dir>/*/workload/profiles/*/*.yaml
MatchesProfileYaml(path) ==
    /\ Len(path.dirs) = 4 /\ path.dirs[2] = "workload" /\ path.dirs[3] = "profiles"
    /\ path.suffix = ".yaml"

\* <base_dir>/<experiment directory>/epp_config.yaml
MatchesEppConfig(path) == Len(path.dirs) = 1 /\ path.name = "epp_config.yaml"

RECURSIVE SeqOf(_)
SeqOf(S) ==
    IF S = {} THEN <<>>
    ELSE LET x == CHOOSE y \in S : TRUE IN <<x>> \o SeqOf(S \ {x})

\* the stage files a run finds: those of the experiments and every written
\* file the pattern matches; a written file is not JSON, build_stage_df
\* raises on it wherever it stands in the list
find_stage_files(files, written) ==
    LET found == SeqOf({w \in written : MatchesStageFile(OutputPath(w))})
    IN  files \o [i \in 1..Len(found) |->
                     StageFile("invalid_json", "a", Len(files) + i - 1, NaN, NaN, 0, 0,
                               NaN, NaN, NaN, NoPerRequest)]

\* the EPP logs a run finds; a written file has no line of pod metrics
find_epp_log_files(logs, written) ==
    LET found == SeqOf({w \in written : MatchesEppLog(OutputPath(w))})
    IN  logs \o [i \in 1..Len(found) |-> EppLog("a", <<>>)]

\* the script is started again once it has ended; the files of out_dir stay
Rerun ==
    /\ pc \in {"done", "raised"}
    /\ Len(earlier) < MaxRuns - 1
    /\ earlier' = Append(earlier, [pc |-> pc, stage_files |-> stage_files,
                                   epp_logs |-> epp_logs, agg |-> agg,
                                   report |-> report])
    /\ stage_files' = find_stage_files(stage_files, WrittenUnderBaseDir)
    /\ epp_logs' = find_epp_log_files(epp_logs, WrittenUnderBaseDir)
    /\ pc' = IF args.script = "analyze" THEN "build_stage_df" ELSE "ext_build_stage_df"
    /\ stage_df' = EmptyFrame
    /\ agg' = EmptyFrame
    /\ epp_df' = EmptyFrame
    /\ plotted' = {}
    /\ report' = NoReport
    /\ UNCHANGED <<args, pr_file, pr_stats, out_files>>

NextRerun == NextMain \/ Rerun

InitRerun ==
    /\ args \in [script : {"analyze", "analyze_ext"}, served_mode : {"total"},
                 skip_stage0 : {FALSE}, target_addresses : {{}}, baseline : {NoBaseline},
                 out_dir : {"base_dir", "out_dir"}]
    /\ pc = IF args.script = "analyze" THEN "build_stage_df" ELSE "ext_build_stage_df"
    /\ stage_files \in FileLists(IF args.script = "analyze" THEN MainFiles ELSE ExtFiles,
                                 MaxFiles)
    /\ epp_logs \in IF args.script = "analyze" THEN {<<>>} ELSE ExtEppLogs
    /\ pr_file = NoPerRequest
    /\ pr_stats = read_per_request_stats(NoPerRequest)
    /\ stage_df = EmptyFrame
    /\ agg = EmptyFrame
    /\ epp_df = EmptyFrame
    /\ out_files = {}
    /\ plotted = {}
    /\ earlier = <<>>
    /\ report = NoReport

SpecRerun == InitRerun /\ [][NextRerun]_vars

----------------------------------------------------------------------------
(* Properties                                                              *)

ChartSet == {Charts[i] : i \in 1..Len(Charts)}

\* build_stage_df has returned
Built == pc \in {"aggregate", "save_csv", "plot", "report", "done"}

\* aggregate_per_qps has returned
AggDone == pc \in {"save_csv", "plot", "report", "done"}

WellFormed(files) == SelectSeq(files, LAMBDA f : f.kind = "object")

HasMalformed == \E i \in 1..Len(stage_files) : stage_files[i].kind # "object"

RECURSIVE SumFn(_, _)
\* the sum of f[i] over the finite set S
SumFn(S, f) ==
    IF S = {} THEN 0
    ELSE LET x == CHOOSE y \in S : TRUE IN f[x] + SumFn(S \ {x}, f)

\* x is the float n / d, for naturals n and d
IsRatio(x, n, d) ==
    IF d = 0 THEN (IF n = 0 THEN x.k = "nan" ELSE x.k = "inf")
    ELSE x.k = "num" /\ x.n * d = n * x.d

\* the value of a whole-number float, 0 for a missing one
Whole(x) == IF x.k = "num" THEN x.n ELSE 0

\* C1 (as stated): a stage file that is not valid JSON, or whose top level is
\* not an object, is skipped silently: build_stage_df completes and returns
\* the stage records of the well-formed stage files.
C1_MalformedStageFileSkipped ==
    HasMalformed =>
        /\ pc # "raised"
        /\ Built => stage_df = build_stage_df(WellFormed(stage_files))

\* C2: with no stage file under the base directory, main of analyze.py never
\* raises and always has a next step until it is done; when done it has
\* written analysis_metrics.csv, no chart, and a report that is the title, the
\* "_No data found._" placeholder and then the configuration section.
C2_NoStageFilesCompletes ==
    (args.script = "analyze" /\ stage_files = <<>>) =>
        /\ pc # "raised"
        /\ pc = "done" \/ ENABLED Next
        /\ pc = "done" =>
              /\ CsvFile \in out_files
              /\ out_files \cap ChartSet = {}
              /\ ReportFile \in out_files
              /\ report.sections = <<"title", "no_data", "configuration">>

C2_Witness == args.script = "analyze" /\ stage_files = <<>> /\ pc = "done"

StagePairs ==
    {<<stage_df.rows[i].experiment, stage_df.rows[i].requested_qps>> :
        i \in 1..Len(stage_df.rows)}

PresentPairs == {p \in StagePairs : NotNa(p[2])}

StageIdx(p) ==
    {i \in 1..Len(stage_df.rows) :
        stage_df.rows[i].experiment = p[1] /\ stage_df.rows[i].requested_qps = p[2]}

AggIdx(p) ==
    {j \in 1..Len(agg.rows) :
        agg.rows[j].experiment = p[1] /\ agg.rows[j].requested_qps = p[2]}

AggPair(j) == <<agg.rows[j].experiment, agg.rows[j].requested_qps>>

\* the row's successes, failures and duration_s are the sums over exactly the
\* stage records with the row's pair (send durations are whole in the model)
SumsOverPair(j) ==
    LET I == StageIdx(AggPair(j))
        r == agg.rows[j]
    IN  /\ r.successes = SumFn(I, [i \in I |-> stage_df.rows[i].successes])
        /\ r.failures = SumFn(I, [i \in I |-> stage_df.rows[i].failures])
        /\ IsRatio(r.duration_s,
                   SumFn(I, [i \in I |-> Whole(stage_df.rows[i].send_duration_s)]), 1)

\* C5 (as stated): aggregate_per_qps returns exactly one row for each distinct
\* (experiment, requested rate) pair occurring in the stage records, with the
\* sums of successes, failures and send duration over the records of the pair.
C5_OneRowPerPair ==
    (AggDone /\ ~IsEmpty(stage_df)) =>
        /\ \A p \in StagePairs : Cardinality(AggIdx(p)) = 1
        /\ \A j \in 1..Len(agg.rows) : AggPair(j) \in StagePairs /\ SumsOverPair(j)

\* C5 (amended): aggregate_per_qps returns exactly one row for each distinct
\* (experiment, requested rate) pair whose requested rate is present, with the
\* sums of successes, failures and send duration over exactly the stage
\* records of the pair; a stage record whose requested rate is missing
\* belongs to no row.
C5_OneRowPerPresentPair ==
    (AggDone /\ ~IsEmpty(stage_df)) =>
        /\ \A p \in PresentPairs : Cardinality(AggIdx(p)) = 1
        /\ \A j \in 1..Len(agg.rows) : AggPair(j) \in PresentPairs /\ SumsOverPair(j)

C5_Witness ==
    /\ AggDone
    /\ \E p \in PresentPairs : Cardinality(StageIdx(p)) >= 2 /\ Cardinality(AggIdx(p)) = 1
    /\ \E i \in 1..Len(stage_df.rows) : stage_df.rows[i].successes > 0

\* the present values of one column of the rows of agg for one experiment
PresentRows(exp, col) ==
    SelectSeq(agg.rows, LAMBDA r : r.experiment = exp /\ NotNa(r[col]))

\* sum(value * successes) / sum(successes), both sums over the rows s
WeightedMean(s, col) ==
    IF s = <<>> THEN NaN
    ELSE ReplaceInf(FDiv(SumSkipNa(Weighted(s, col)),
                         FromInt(SumInt(Column(s, "successes")))))

\* C6 (as stated): the summary has exactly one row per experiment, and its
\* overall TTFT mean is the successes-weighted mean of the per-rate values:
\* sum(value * successes) / sum(successes), numerator and denominator taken
\* over the same aggregated rows (those that have a value), whenever the
\* successes of those rows are not all 0.
C6_WeightedOverSameRows ==
    (pc = "done" /\ ~IsEmpty(agg)) =>
        /\ \A e \in ExperimentsOf(agg.rows) :
              Cardinality({j \in 1..Len(report.summary) :
                              report.summary[j].experiment = e}) = 1
        /\ \A j \in 1..Len(report.summary) :
              /\ report.summary[j].experiment \in ExperimentsOf(agg.rows)
              /\ SumInt(Column(PresentRows(report.summary[j].experiment, "ttft_mean_s"),
                               "successes")) > 0
                  => report.summary[j].ttft_mean_s_overall =
                         WeightedMean(PresentRows(report.summary[j].experiment,
                                                  "ttft_mean_s"), "ttft_mean_s")

\* the stage records of one row of agg that record requests_per_sec
RpsIdx(j) ==
    {i \in StageIdx(AggPair(j)) : NotNa(stage_df.rows[i].achieved_rps_json)}

\* C7: the completed_rps of every aggregated row follows the served mode:
\* (successes + failures) / duration_s in mode "total", successes / duration_s
\* in mode "successes", and in mode "json" the mean of the requests_per_sec
\* values recorded in the stage files of the row (whole numbers in the model).
C7_CompletedRpsFollowsMode ==
    AggDone =>
        \A j \in 1..Len(agg.rows) :
            LET r == agg.rows[j] IN
            /\ r.duration_s.k = "num"
            /\ args.served_mode = "total" =>
                  IsRatio(r.completed_rps, (r.successes + r.failures) * r.duration_s.d,
                          r.duration_s.n)
            /\ args.served_mode = "successes" =>
                  IsRatio(r.completed_rps, r.successes * r.duration_s.d, r.duration_s.n)
            /\ args.served_mode = "json" =>
                  IF RpsIdx(j) = {} THEN r.completed_rps.k = "nan"
                  ELSE IsRatio(r.completed_rps,
                               SumFn(RpsIdx(j), [i \in RpsIdx(j) |->
                                         Whole(stage_df.rows[i].achieved_rps_json)]),
                               Cardinality(RpsIdx(j)))

C7_Witness ==
    /\ AggDone
    /\ args.served_mode = "successes"
    /\ \E j \in 1..Len(agg.rows) :
          /\ agg.rows[j].failures > 0
          /\ agg.rows[j].successes > 0
          /\ Cardinality(StageIdx(AggPair(j))) >= 2

\* rate is successes / (successes + failures), within [0, 1], when the total
\* is positive, and missing when the total is 0
RateOk(rate, s, f) ==
    IF s + f > 0
    THEN rate.k = "num" /\ rate.n * (s + f) = s * rate.d /\ 0 <= rate.n /\ rate.n <= rate.d
    ELSE rate.k = "nan"

\* C8: in every stage record, aggregated row and summary row, success_rate is
\* successes / (successes + failures), between 0 and 1, when the total is
\* positive, and missing when the total is 0; no step raises.
C8_SuccessRate ==
    /\ HasMalformed \/ pc # "raised"
    /\ Built => \A i \in 1..Len(stage_df.rows) :
          RateOk(stage_df.rows[i].success_rate, stage_df.rows[i].successes,
                 stage_df.rows[i].failures)
    /\ AggDone => \A j \in 1..Len(agg.rows) :
          RateOk(agg.rows[j].success_rate, agg.rows[j].successes, agg.rows[j].failures)
    /\ pc = "done" => \A j \in 1..Len(report.summary) :
          RateOk(report.summary[j].success_rate_overall, report.summary[j].successes,
                 report.summary[j].failures)

C8_Witness ==
    /\ pc = "done"
    /\ \E j \in 1..Len(report.summary) :
          report.summary[j].successes + report.summary[j].failures = 0
    /\ \E j \in 1..Len(report.summary) :
          report.summary[j].successes > 0 /\ report.summary[j].failures > 0

\* a request whose token counts and times all convert to numbers
NumbersOk(r) ==
    /\ r.input_tokens.ok
    /\ r.output_tokens.ok
    /\ r.start_time.k # "bad"
    /\ \A i \in 1..Len(r.tok_times) : r.tok_times[i].ok

\* a malformed record: a line that is not JSON, a value that is not an
\* object, or an object with a token count or time that is not a number
Malformed(r) == r.kind # "object" \/ ~NumbersOk(r)

WithoutMalformed(file) ==
    [exists |-> file.exists, lines |-> SelectSeq(file.lines, LAMBDA r : ~Malformed(r))]

\* C4 (as stated): a malformed record is skipped silently and every other
\* error-free record of the file, before or after it, still contributes to the
\* token totals and to the TTFT/ITL samples: the result is the result for
\* the file without its malformed records.
C4_MalformedRecordSkipped ==
    pc = "stats_done" => pr_stats = read_per_request_stats(WithoutMalformed(pr_file))

\* the records whose error is null or absent and whose field is a number
ErrorFree(field) ==
    {i \in 1..Len(pr_file.lines) :
        /\ pr_file.lines[i].kind = "object"
        /\ ~pr_file.lines[i].error
        /\ pr_file.lines[i][field].ok}

\* C9 (as stated): the token totals are sums over exactly the records whose
\* "error" is null or absent; a record with a non-null error adds nothing.
C9_TotalsOverErrorFree ==
    pc = "stats_done" =>
        /\ pr_stats.input_tokens_total =
              SumFn(ErrorFree("input_tokens"),
                    [i \in ErrorFree("input_tokens") |-> pr_file.lines[i].input_tokens.v])
        /\ pr_stats.output_tokens_total =
              SumFn(ErrorFree("output_tokens"),
                    [i \in ErrorFree("output_tokens") |-> pr_file.lines[i].output_tokens.v])

\* the rows of the EPP table of one experiment, timestamp and pod address
SampleIdx(exp, ts, addr) ==
    {i \in 1..Len(epp_df.rows) :
        /\ epp_df.rows[i].experiment = exp
        /\ epp_df.rows[i].timestamp = ts
        /\ epp_df.rows[i].pod_address = addr}

\* the objects of the pods arrays, as <<log, line, entry>>, that a parsed
\* line of an experiment's logs lists with a timestamp and a pod address
PodEntries(exp, ts, addr) ==
    {e \in (1..Len(epp_logs)) \X (1..MaxLines + 1) \X (1..MaxPods + 1) :
        /\ epp_logs[e[1]].experiment = exp
        /\ e[2] <= Len(epp_logs[e[1]].lines)
        /\ LET line == epp_logs[e[1]].lines[e[2]] IN
           /\ line.has_timestamp
           /\ line.pods_kind = "list"
           /\ line.timestamp = ts
           /\ e[3] <= Len(line.pods)
           /\ line.pods[e[3]].is_dict
           /\ line.pods[e[3]].address = addr}

SampleKeys ==
    {<<exp, ts, addr>> :
        exp \in {Experiments[i] : i \in 1..Len(Experiments)},
        ts \in 0..2,
        addr \in {Addresses[i] : i \in 1..Len(Addresses)}}

\* C10 (as stated): the EPP table holds at most one sample per (experiment,
\* timestamp, pod address), whatever the log content.
C10_OneSamplePerTimestampAndPod ==
    pc = "epp_done" =>
        \A key \in SampleKeys : Cardinality(SampleIdx(key[1], key[2], key[3])) <= 1

\* C10 (amended): the EPP table holds exactly one sample per object of the
\* pods array of each parsed log line whose address passes the address
\* filter, without deduplication: the rows of one experiment with a given
\* timestamp and pod address are as many as the pods objects with that
\* address in the experiment's log lines with that timestamp (none when the
\* address is filtered out), so they are at most one only when no pods
\* array lists the address twice and no two such lines share the timestamp.
C10_OneSamplePerPodEntry ==
    pc = "epp_done" =>
        \A key \in SampleKeys :
            Cardinality(SampleIdx(key[1], key[2], key[3])) =
                IF PassesFilter(key[3], args.target_addresses)
                THEN Cardinality(PodEntries(key[1], key[2], key[3]))
                ELSE 0

C10_Witness ==
    /\ pc = "epp_done"
    /\ \E key \in SampleKeys : Cardinality(SampleIdx(key[1], key[2], key[3])) = 2
    /\ \E key \in SampleKeys :
          /\ Cardinality(PodEntries(key[1], key[2], key[3])) > 0
          /\ SampleIdx(key[1], key[2], key[3]) = {}

\* C3: pointed at a base directory with no stage files, analyze_ext.py
\* completes without raising, with or without --skip-stage0 and with or
\* without epp.log files, and writes a report that holds the no-data
\* placeholder.
C3_ExtNoStageFilesCompletes ==
    (args.script = "analyze_ext" /\ stage_files = <<>>) =>
        /\ pc # "raised"
        /\ pc = "done" =>
              /\ ReportFile \in out_files
              /\ \E i \in 1..Len(report.sections) : report.sections[i] = "no_data"

\* the value of a key of a section of a stage file: absent when the section
\* or one of the sections around it is missing or null
Reported(f, path, value) ==
    IF \A n \in path : f.sections[n] = "object" THEN value ELSE NaN

\* C11: parse_stage_file does not raise for a stage file that is a JSON
\* object with sections or percentile fields missing or null: the values
\* of a missing section are absent in the record, the counts default to 0,
\* and a missing per-request file gives zero token totals and percentiles
\* as the stage file reports them.
C11_MissingSectionsAbsent ==
    (\A i \in 1..Len(stage_files) : stage_files[i].kind = "object") =>
        /\ pc # "raised"
        /\ Built =>
              /\ Len(stage_df.rows) = Len(stage_files)
              /\ \A i \in 1..Len(stage_files) :
                    LET f == stage_files[i]
                        r == stage_df.rows[i]
                        s == IF f.sections.successes = "object" THEN f.succ_count ELSE 0
                        x == IF f.sections.failures = "object" THEN f.fail_count ELSE 0
                    IN  /\ r.requested_qps = Reported(f, {"load_summary"}, f.requested_rate)
                        /\ r.send_duration_s = Reported(f, {"load_summary"}, f.send_duration)
                        /\ r.achieved_rps_json =
                               Reported(f, {"successes", "throughput"}, f.requests_per_sec)
                        /\ r.output_toks_per_sec_json =
                               Reported(f, {"successes", "throughput"}, f.output_tokens_per_sec)
                        /\ r.ttft_mean_s =
                               Reported(f, {"successes", "latency", "time_to_first_token"},
                                        f.ttft_mean)
                        /\ r.itl_mean_s =
                               Reported(f, {"successes", "latency", "inter_token_latency"},
                                        f.itl_mean)
                        /\ r.successes = s
                        /\ r.failures = x
                        /\ r.success_rate = IF s + x = 0 THEN NaN ELSE Num(s, s + x)
                        /\ ~f.per_request.exists =>
                              /\ r.input_tokens_total = 0
                              /\ r.output_tokens_total = 0
                              /\ r.ttft_p90_s =
                                     Reported(f, {"successes", "latency",
                                                  "time_to_first_token"}, f.ttft_p90)
                              /\ r.itl_p50_s =
                                     Reported(f, {"successes", "latency",
                                                  "inter_token_latency"}, f.itl_p50)

C11_Witness ==
    /\ Built
    /\ Len(stage_files) = 1
    /\ stage_files[1].sections.successes = "missing"
    /\ stage_files[1].sections.load_summary = "null"
    /\ ~stage_files[1].per_request.exists
    /\ stage_df.rows[1].successes = 0
    /\ stage_df.rows[1].requested_qps = NaN

\* the percentile the claim expects: the recomputed one exactly when the
\* stage-reported one is missing or 0 and a recomputed one exists
Expected(stage_value, samples, q) ==
    IF (stage_value = NaN \/ stage_value = FromInt(0)) /\ samples # <<>>
    THEN Percentile(samples, q) ELSE stage_value

TtftPath == {"successes", "latency", "time_to_first_token"}
ItlPath == {"successes", "latency", "inter_token_latency"}

\* C19: for each of TTFT p50, TTFT p90, ITL p50 and ITL p90 parse_stage_file
\* reports the value recomputed from the per-request file if and only if the
\* stage-reported value is missing or 0 and a recomputed value exists, and
\* keeps the stage-reported value otherwise.
C19_PercentileFallback ==
    Built =>
        \A i \in 1..Len(stage_df.rows) :
            LET f == stage_files[i]
                r == stage_df.rows[i]
                pr == read_per_request_stats(f.per_request)
            IN  /\ Len(stage_df.rows) = Len(stage_files)
                /\ r.ttft_p50_s =
                       Expected(Reported(f, TtftPath, f.ttft_p50), pr.ttft_samples, 50)
                /\ r.ttft_p90_s =
                       Expected(Reported(f, TtftPath, f.ttft_p90), pr.ttft_samples, 90)
                /\ r.itl_p50_s =
                       Expected(Reported(f, ItlPath, f.itl_p50), pr.itl_samples, 50)
                /\ r.itl_p90_s =
                       Expected(Reported(f, ItlPath, f.itl_p90), pr.itl_samples, 90)

\* a file whose TTFT p50 is 0 and replaced, whose TTFT p90 is kept, and
\* whose ITL p50 is missing and stays missing for want of ITL samples
C19_Witness ==
    /\ Built
    /\ Len(stage_files) = 1
    /\ stage_files[1].sections = AllSections
    /\ stage_files[1].ttft_p50 = FromInt(0)
    /\ stage_files[1].ttft_p90 = FromInt(4)
    /\ stage_files[1].itl_p50 = NaN
    /\ stage_df.rows[1].ttft_p50_s = FromInt(2)
    /\ stage_df.rows[1].ttft_p90_s = FromInt(4)
    /\ stage_df.rows[1].itl_p50_s = NaN

\* the stage records of the pair of row j of agg, in the order of stage_df
StageRowsOf(j) ==
    SelectSeq(stage_df.rows,
              LAMBDA r : r.experiment = agg.rows[j].experiment
                         /\ r.requested_qps = agg.rows[j].requested_qps)

\* plot is the mean of the stage-reported values when that mean is present
\* and finite, and the derived value otherwise
PrefersReported(plot, reported, derived) ==
    LET m == MeanSkipNa(reported)
    IN  plot = IF m.k = "num" THEN m ELSE derived

MayPrecede(x, y) ==
    IF x.toks.k = "nan" \/ y.toks.k = "nan" THEN TRUE
    ELSE IF x.toks # y.toks THEN FLt(y.toks, x.toks)
    ELSE IF x.success_rate.k = "nan" \/ y.success_rate.k = "nan" THEN TRUE
    ELSE IF x.success_rate # y.success_rate THEN FLt(y.success_rate, x.success_rate)
    ELSE IF x.ttft_mean_s.k = "nan" \/ y.ttft_mean_s.k = "nan" THEN TRUE
    ELSE ~FLt(y.ttft_mean_s, x.ttft_mean_s)

\* C13: in the analyze.py report the rows of every per-QPS table are sorted
\* by the Output toks/s value shown in the table, non-increasing, ties broken
\* by Success Rate, non-increasing, then by TTFT mean, non-decreasing.
C13_TablesSortedByShownValue ==
    (pc = "done" /\ args.script = "analyze") =>
        \A t \in 1..Len(report.per_qps) :
            \A k \in 1..(Len(report.per_qps[t].rows) - 1) :
                MayPrecede(report.per_qps[t].rows[k], report.per_qps[t].rows[k + 1])

\* the rows of the summary of the baseline experiment
BaselineRows == SelectSeq(report.summary, LAMBDA r : r.experiment = args.baseline)

\* delta is (ttft - base) / base * 100, for numbers ttft and base # 0
IsDelta(delta, ttft, base) ==
    /\ delta.k = "num"
    /\ delta.n * ttft.d * base.n = 100 * (ttft.n * base.d - base.n * ttft.d) * delta.d

\* C14: when the baseline names an experiment of the data whose overall TTFT
\* mean is defined and not 0, every summary row's
\* ttft_delta_vs_baseline_pct_overall is (row TTFT - baseline TTFT) /
\* baseline TTFT * 100 (absent for a row without TTFT), so the baseline's own
\* row is 0; when no baseline is given, the baseline is not among the
\* experiments, or its TTFT is absent or 0, the delta is absent in every row;
\* nothing raises.
C14_BaselineDelta ==
    /\ HasMalformed \/ pc # "raised"
    /\ (pc = "done" /\ ~IsEmpty(agg)) =>
          IF /\ args.baseline # NoBaseline
             /\ BaselineRows # <<>>
             /\ BaselineRows[1].ttft_mean_s_overall.k = "num"
             /\ BaselineRows[1].ttft_mean_s_overall.n # 0
          THEN \A j \in 1..Len(report.summary) :
                  LET r == report.summary[j] IN
                  /\ r.ttft_mean_s_overall.k = "num" =>
                        IsDelta(r.ttft_delta_vs_baseline_pct_overall,
                                r.ttft_mean_s_overall, BaselineRows[1].ttft_mean_s_overall)
                  /\ r.ttft_mean_s_overall.k = "nan" =>
                        r.ttft_delta_vs_baseline_pct_overall = NaN
                  /\ r.experiment = args.baseline =>
                        r.ttft_delta_vs_baseline_pct_overall = FromInt(0)
          ELSE \A j \in 1..Len(report.summary) :
                  report.summary[j].ttft_delta_vs_baseline_pct_overall = NaN

\* baseline a with TTFT 3 and a faster experiment b with TTFT 1
C14_Witness ==
    /\ pc = "done"
    /\ args.baseline = "a"
    /\ \E j \in 1..Len(report.summary) :
          /\ report.summary[j].experiment = "a"
          /\ report.summary[j].ttft_mean_s_overall = FromInt(3)
          /\ report.summary[j].ttft_delta_vs_baseline_pct_overall = FromInt(0)
    /\ \E j \in 1..Len(report.summary) :
          /\ report.summary[j].experiment = "b"
          /\ report.summary[j].ttft_mean_s_overall = FromInt(1)
          /\ report.summary[j].ttft_delta_vs_baseline_pct_overall.n < 0

\* the samples the lines of one log contain, as <<line, entry>>: the objects
\* of the pods arrays of its parsed lines
LogSamples(log) ==
    {e \in (1..Len(log.lines)) \X (1..MaxPods + 1) :
        LET line == log.lines[e[1]] IN
        /\ line.has_timestamp
        /\ line.pods_kind = "list"
        /\ e[2] <= Len(line.pods)
        /\ line.pods[e[2]].is_dict}

\* the samples of a log whose pod address is a, taken at time ts
SamplesAt(log, ts, a) ==
    {e \in LogSamples(log) :
        log.lines[e[1]].timestamp = ts /\ log.lines[e[1]].pods[e[2]].address = a}

\* C16: with a non-empty set of target addresses the rows parse_epp_log_file
\* returns for a log are only samples whose pod address is in the set, and
\* all of those that the log lines contain; with no target addresses they
\* are all the parsed samples of the log.
C16_AddressFilter ==
    pc = "epp_done" =>
        /\ args.target_addresses # {} =>
              \A i \in 1..Len(epp_df.rows) :
                  epp_df.rows[i].pod_address \in args.target_addresses
        /\ \A l \in 1..Len(epp_logs) :
              \A a \in {Addresses[i] : i \in 1..Len(Addresses)}, ts \in 0..2 :
                  (args.target_addresses = {} \/ a \in args.target_addresses) =>
                      Cardinality(SampleIdx(epp_logs[l].experiment, ts, a))
                          = Cardinality(SamplesAt(epp_logs[l], ts, a))
        /\ args.target_addresses = {} =>
              Len(epp_df.rows) = SumFn(1..Len(epp_logs),
                                       [l \in 1..Len(epp_logs) |->
                                           Cardinality(LogSamples(epp_logs[l]))])

\* a log that lists a target address and another address: the sample of the
\* target is returned, the other is not
C16_Witness ==
    /\ pc = "epp_done"
    /\ args.target_addresses = {"10.0.0.1"}
    /\ \E l \in 1..Len(epp_logs) :
          /\ SamplesAt(epp_logs[l], 1, "10.0.0.2") # {}
          /\ SamplesAt(epp_logs[l], 1, "10.0.0.1") # {}
    /\ SampleIdx("a", 1, "10.0.0.1") # {}
    /\ SampleIdx("a", 1, "10.0.0.2") = {}

\* the stage files whose stage index is not 0
OtherStages == SelectSeq(stage_files, LAMBDA f : f.stage_index # 0)

\* the aggregation of a run without the flag over the other stage files
AggOfOtherStages == aggregate_per_qps(build_stage_df(OtherStages), args.served_mode)

\* C15: in analyze_ext.py with --skip-stage0 no stage record with stage
\* index 0 contributes to an aggregated row or a report table, and the
\* records with another stage index contribute exactly as they do in a run
\* without the flag over them alone.
C15_SkipStage0 ==
    (args.script = "analyze_ext" /\ args.skip_stage0 /\ ~HasMalformed) =>
        /\ pc \in {"ext_aggregate", "ext_epp", "ext_save_csv", "ext_plot", "ext_report",
                   "done"} =>
              /\ \A i \in 1..Len(stage_df.rows) : stage_df.rows[i].stage_index # 0
              /\ stage_df.rows = build_stage_df(OtherStages).rows
        /\ pc = "ext_epp" => agg.rows = AggOfOtherStages.rows
        /\ pc \in {"ext_save_csv", "ext_plot", "ext_report", "done"} =>
              /\ Len(agg.rows) = Len(AggOfOtherStages.rows)
              /\ \A j \in 1..Len(agg.rows) :
                    \A col \in {"experiment", "requested_qps", "successes", "failures",
                                "duration_s", "ttft_mean_s", "ttft_p90_s",
                                "completed_rps", "success_rate"} :
                        agg.rows[j][col] = AggOfOtherStages.rows[j][col]
        /\ pc = "done" =>
              \A t \in 1..Len(report.per_qps) :
                  \A k \in 1..Len(report.per_qps[t].rows) :
                      \E j \in 1..Len(agg.rows) : report.per_qps[t].rows[k] = agg.rows[j]

\* a run with the flag over a stage 0 file and a stage 1 file of one
\* experiment and rate: the row counts the stage 1 file alone
C15_Witness ==
    /\ pc = "done"
    /\ args.skip_stage0
    /\ Len(stage_files) = 2
    /\ stage_files[1].experiment = stage_files[2].experiment
    /\ stage_files[1].succ_count = 2
    /\ stage_files[2].succ_count = 2
    /\ Len(agg.rows) = 1
    /\ agg.rows[1].successes = 2
    /\ Len(report.per_qps) = 1

\* the mean of the success rates of the agg rows of an experiment
MeanSuccessRate(e) == MeanSkipNa(Column(RowsOf(agg.rows, e), "success_rate"))

\* some agg row of the experiment has a value to draw in the chart
Plottable(chart, e) ==
    \E i \in 1..Len(agg.rows) :
        /\ agg.rows[i].experiment = e
        /\ \E col \in PlotColumns(chart) : NotNa(agg.rows[i][col])

ThresholdCharts == {"throughput_vs_latency.png", "latency_vs_qps.png", "throughput_vs_qps.png"}

\* the charts are drawn
Drawn == pc \in {"report", "done", "ext_report"}

\* C17: in both scripts an experiment whose mean success rate is below 90%
\* has no line in the throughput-vs-latency, latency-vs-QPS and
\* throughput-vs-QPS charts, and an experiment at or above 90% with data to
\* draw has one
C17_NinetyPercent ==
    Drawn =>
        \A chart \in ThresholdCharts : \A e \in ExperimentsOf(agg.rows) :
            LET m == MeanSuccessRate(e) IN
            /\ (m.k = "num" /\ FLt(m, Num(9, 10))) => <<chart, e>> \notin plotted
            /\ (m.k = "num" /\ ~FLt(m, Num(9, 10)) /\ Plottable(chart, e))
                  => <<chart, e>> \in plotted

\* C17 for analyze_ext.py alone
C17_Ext == args.script = "analyze_ext" => C17_NinetyPercent

\* analyze.py draws an experiment with a mean success rate of 2/3
C17_Drawn ==
    /\ args.script = "analyze" /\ pc = "done"
    /\ MeanSuccessRate("a") = Num(2, 3)
    /\ <<"latency_vs_qps.png", "a">> \in plotted

\* both scripts leave out an experiment whose mean success rate is 0 and
\* draw one whose mean success rate is 1
C17_Witness ==
    /\ Drawn
    /\ MeanSuccessRate("a") = FromInt(0) /\ MeanSuccessRate("b") = FromInt(1)
    /\ plotted \cap (ThresholdCharts \X {"a", "b"}) = ThresholdCharts \X {"b"}

\* the stage table main aggregates
ParsedFrame ==
    IF args.script = "analyze_ext" /\ args.skip_stage0
    THEN SkipStage0(build_stage_df(stage_files))
    ELSE build_stage_df(stage_files)

\* the aggregated table main writes, draws and reports
AggregatedFrame ==
    LET a == aggregate_per_qps(stage_df, args.served_mode)
        epp_agg == aggregate_epp_metrics_by_experiment(epp_df)
    IN  IF args.script = "analyze" \/ IsEmpty(epp_agg) THEN a
        ELSE merge_with_epp_metrics(a, epp_agg)

\* the chart files of the script, for the tables that are not empty
ExpectedCharts ==
    IF args.script = "analyze"
    THEN (IF IsEmpty(agg) THEN {} ELSE ChartSet)
    ELSE (IF IsEmpty(agg) THEN {} ELSE {ExtCharts[i] : i \in 1..Len(ExtCharts)})
         \cup (IF IsEmpty(epp_df) THEN {}
               ELSE {EppCharts[i] : i \in 1..Len(EppCharts)}
                    \cup plot_per_pod_epp_metrics(epp_df))

\* the images the report embeds
Embedded ==
    report.images \cup (IF args.script = "analyze_ext" THEN report.per_pod ELSE {})

\* a file with the extension of the charts
IsChart(file) == file \notin {CsvFile, EppCsvFile, EppSummaryCsvFile, ReportFile}

\* C12: the steps of main run in one order: the table that is aggregated is
\* the one parsed from all the stage files, analysis_metrics.csv is written
\* only once the aggregated table is there, a chart only after the CSV, the
\* report only once every chart is saved, and every image the report embeds
\* is a file of the output directory when the report is written
C12_FixedOrder ==
    /\ agg # EmptyFrame => stage_df = ParsedFrame
    /\ CsvFile \in out_files => agg = AggregatedFrame
    /\ (\E file \in out_files : IsChart(file)) => CsvFile \in out_files
    /\ ReportFile \notin out_files => report = NoReport
    /\ ReportFile \in out_files =>
          /\ pc = "done"
          /\ CsvFile \in out_files
          /\ ExpectedCharts \subseteq out_files
          /\ Embedded \subseteq out_files

\* analyze_ext.py has written a report with core charts, EPP charts and
\* per-pod charts
C12_Witness ==
    /\ args.script = "analyze_ext" /\ pc = "done"
    /\ report.images = {ExtCharts[i] : i \in 1..Len(ExtCharts)}
                           \cup {EppCharts[i] : i \in 1..Len(EppCharts)}
    /\ report.per_pod # {}

\* a comes strictly before b in a column: a present value before a missing
\* one, else the larger first when descending, the smaller first when not
StrictlyBefore(a, b, descending) ==
    IF a.k = "nan" THEN FALSE
    ELSE IF b.k = "nan" THEN TRUE
    ELSE IF descending THEN FLt(b, a) ELSE FLt(a, b)

\* neither value comes strictly before the other
Tied(a, b) == ~StrictlyBefore(a, b, TRUE) /\ ~StrictlyBefore(b, a, TRUE)

\* row x may stand above row y under the keys of analyze.py
AnalyzeOrder(x, y) ==
    \/ StrictlyBefore(x.output_toks_per_sec_overall, y.output_toks_per_sec_overall, TRUE)
    \/ /\ Tied(x.output_toks_per_sec_overall, y.output_toks_per_sec_overall)
       /\ \/ StrictlyBefore(x.success_rate_overall, y.success_rate_overall, TRUE)
          \/ /\ Tied(x.success_rate_overall, y.success_rate_overall)
             /\ ~StrictlyBefore(y.ttft_mean_s_overall, x.ttft_mean_s_overall, FALSE)

\* row x may stand above row y under the keys of analyze_ext.py
ExtOrder(x, y) ==
    \/ StrictlyBefore(x.ttft_p90_s_overall, y.ttft_p90_s_overall, FALSE)
    \/ /\ Tied(x.ttft_p90_s_overall, y.ttft_p90_s_overall)
       /\ ~StrictlyBefore(y.ttft_mean_s_overall, x.ttft_mean_s_overall, FALSE)

\* C21: the summary of the report of analyze.py is ordered by overall output
\* tokens/sec non-increasing, then overall success rate non-increasing, then
\* overall TTFT mean non-decreasing, that of analyze_ext.py by overall TTFT
\* p90 non-decreasing, then overall TTFT mean non-decreasing, and a row whose
\* key is missing stands below the rows that have it
C21_SummaryOrdered ==
    pc = "done" =>
        \A i, j \in 1..Len(report.summary) :
            i < j => IF args.script = "analyze"
                     THEN AnalyzeOrder(report.summary[i], report.summary[j])
                     ELSE ExtOrder(report.summary[i], report.summary[j])

\* analyze.py has listed b, with the larger output rate, above a
C21_Witness ==
    /\ args.script = "analyze" /\ pc = "done"
    /\ Len(report.summary) = 2
    /\ report.summary[1].experiment = "b"
    /\ report.summary[1].output_toks_per_sec_overall = FromInt(5)
    /\ report.summary[2].output_toks_per_sec_overall = FromInt(3)

\* the run before the current one
Previous == earlier[Len(earlier)]

\* C22: a run after another on the same inputs finds the same stage files and
\* EPP logs, also when the files are written into the base directory, and no
\* written file is taken for a profile YAML or an EPP config; it ends as
\* the run before did, with the same aggregated rows and the same report
C22_RerunSame ==
    /\ \A w \in out_files :
          /\ ~MatchesProfileYaml(OutputPath(w))
          /\ ~MatchesEppConfig(OutputPath(w))
    /\ earlier # <<>> =>
          /\ stage_files = Previous.stage_files
          /\ epp_logs = Previous.epp_logs
          /\ pc \in {"done", "raised"} =>
                /\ pc = Previous.pc
                /\ agg = Previous.agg
                /\ report = Previous.report

\* analyze_ext.py has run twice with its files in the base directory, and
\* has a report with charts of the stage files and of the EPP logs
C22_Witness ==
    /\ earlier # <<>> /\ pc = "done"
    /\ args.script = "analyze_ext" /\ args.out_dir = "base_dir"
    /\ ~IsEmpty(agg) /\ ~IsEmpty(epp_df)
    /\ report.images # {}
====
